---- MODULE Spec2Model ----
(***************************************************************************)
(* The conversation layer of chatterbox: AgenticLoop (loop.py), the        *)
(* ChatterboxConversationEntity (entity.py) and the POST /conversation     *)
(* handler (server.py), as a state machine of asyncio tasks.  Every await  *)
(* of the source is a point where another task may run, so a handler that  *)
(* awaits is split at its awaits and nowhere else.                         *)
(***************************************************************************)
EXTENDS Integers, Sequences, FiniteSets, TLC

\* ------------------------------------------------------------- bounds
MaxIterations == 2      \* max_iterations ranges over -1..MaxIterations
MaxToolCalls == 2       \* tool calls in one provider response
MaxHistoryTurns == 1    \* max_history_turns ranges over 0..MaxHistoryTurns
MaxTurns == 3           \* async_process calls started in one behaviour
MaxRetries == 2         \* max_retries ranges over 0..MaxRetries
MaxClock == 3           \* time.monotonic() ranges over 0..MaxClock
MaxCalls == 3           \* CachingDispatcher calls started in one behaviour
MaxAcquires == 3        \* RateLimiter.acquire calls started in one behaviour

Tasks == {1, 2}         \* asyncio tasks that may run a turn at the same time

\* Python's None, kept apart from every str of the model (and from "").
None == "<None>"

\* ------------------------------------------------------------- messages
SystemMsg(text) == [role |-> "system", content |-> text]

UserMsg(text) == [role |-> "user", content |-> text]

AssistantMsg(text) == [role |-> "assistant", content |-> text]

ToolMsg(id, result_str) == [role |-> "tool", tool_call_id |-> id, content |-> result_str]

\* The assistant message a provider hands back for replay (raw_message).
RawMessage(content, calls) ==
    [role |-> "assistant", content |-> content, tool_calls |-> calls]

\* CompletionResult of providers.py.
CompletionResult(finish_reason, content, calls) ==
    [finish_reason |-> finish_reason, content |-> content, tool_calls |-> calls,
     raw_message |-> RawMessage(content, calls)]

\* OrEmpty without the `or ""`.
OrEmptyKeepsNone(content) == content

\* Python's `content or ""`: None and "" both give "".
OrEmpty(content) == IF content = None \/ content = "" THEN "" ELSE content

\* ------------------------------------------------------------- exceptions
\* An exception is [cls, msg]; Mro gives the classes it is an instance of.
Exc(cls, msg) == [cls |-> cls, msg |-> msg]

Mro(cls) ==
    CASE cls = "RuntimeError" -> {"RuntimeError", "Exception"}
      [] cls = "LLMError" -> {"LLMError", "Exception"}
      [] cls = "LLMRateLimitError" -> {"LLMRateLimitError", "LLMError", "Exception"}
      [] cls = "LLMConnectionError" -> {"LLMConnectionError", "LLMError", "Exception"}
      [] cls = "LLMAPIError" -> {"LLMAPIError", "LLMError", "Exception"}
      [] cls = "ConnectionError" -> {"ConnectionError", "OSError", "Exception"}
      [] cls = "TimeoutError" -> {"TimeoutError", "OSError", "Exception"}
      [] cls = "ValueError" -> {"ValueError", "Exception"}
      [] OTHER -> {cls, "Exception"}

IsInstance(exc, cls) == cls \in Mro(exc.cls)

\* The RuntimeError AgenticLoop.run raises when the for loop runs out.
IterationLimitMsg == "AgenticLoop exceeded max_iterations without reaching a final response. Check for tool call loops."

IterationLimitError == Exc("RuntimeError", IterationLimitMsg)

\* json.dumps({"error": str(exc)})
JsonError(exc) == "{\"error\": \"" \o exc.msg \o "\"}"

\* ------------------------------------------------------------- entity, pure parts
\* dict helpers for _histories (conversation_id -> message list).
Get(d, key, default) == IF key \in DOMAIN d THEN d[key] ELSE default

Put(d, key, value) == [k \in DOMAIN d \cup {key} |-> IF k = key THEN value ELSE d[k]]

Pop(d, key) == [k \in DOMAIN d \ {key} |-> d[k]]

\* Python truthiness of a str | None.
Truthy(s) == s # None /\ s # ""

\* A slice that starts one message too early.
LastNOneMore(history, keep) ==
    IF Len(history) > keep + 1
    THEN SubSeq(history, Len(history) - keep, Len(history))
    ELSE history

\* history[-keep:] for keep > 0
LastN(history, keep) ==
    IF Len(history) > keep
    THEN SubSeq(history, Len(history) - keep + 1, Len(history))
    ELSE history

\* A window that is never cut.
TruncateHistoryNever(turns, history) == history

\* ChatterboxConversationEntity._truncate_history
TruncateHistory(turns, history) ==
    IF turns = 0 \/ Len(history) = 0
    THEN history
    ELSE LET keep == turns * 2
         IN  IF Len(history) > keep THEN LastN(history, keep) ELSE history

\* The local `dropped` of _truncate_history: oldest turns left out of the window.
DroppedTurns(turns, history) ==
    IF turns = 0 \/ Len(history) = 0 \/ Len(history) <= turns * 2
    THEN 0
    ELSE (Len(history) - turns * 2) \div 2

\* The fixed apology sentences of async_process.
ApologyStuck == "I'm sorry, I got stuck trying to answer that. Please try again."

ApologyRateLimit == "I'm sorry, I'm receiving too many requests right now. Please try again in a moment."

ApologyConnection == "I'm sorry, I can't reach my language model right now. Please check the connection and try again."

ApologyAPI == "I'm sorry, my language model returned an error. Please try again."

ApologyGeneric == "I'm sorry, I encountered an error. Please try again."

\* The clauses with the catch-all first.
ExceptClausesBroadFirst ==
    << [catches |-> "Exception", says |-> ApologyGeneric],
       [catches |-> "RuntimeError", says |-> ApologyStuck],
       [catches |-> "LLMRateLimitError", says |-> ApologyRateLimit],
       [catches |-> "LLMConnectionError", says |-> ApologyConnection],
       [catches |-> "LLMAPIError", says |-> ApologyAPI] >>

\* The except clauses of async_process, in source order.
ExceptClauses ==
    << [catches |-> "RuntimeError", says |-> ApologyStuck],
       [catches |-> "LLMRateLimitError", says |-> ApologyRateLimit],
       [catches |-> "LLMConnectionError", says |-> ApologyConnection],
       [catches |-> "LLMAPIError", says |-> ApologyAPI],
       [catches |-> "Exception", says |-> ApologyGeneric] >>

\* Python takes the first except clause the exception is an instance of.
Matching(exc) == {i \in DOMAIN ExceptClauses : IsInstance(exc, ExceptClauses[i].catches)}

FirstMatch(exc) == CHOOSE i \in Matching(exc) : \A j \in Matching(exc) : i <= j

\* What `await self._loop.run(...)` inside the try of async_process leads to:
\* the ConversationResult returned, or the exception that escapes every clause.
\* run_outcome is [kind |-> "return", value |-> text] or [kind |-> "raise", exc |-> e].
AsyncProcessOutcome(run_outcome, cid) ==
    IF run_outcome.kind = "return"
    THEN [kind |-> "return", response_text |-> run_outcome.value, conversation_id |-> cid]
    ELSE IF Matching(run_outcome.exc) = {}
         THEN [kind |-> "raise", exc |-> run_outcome.exc]
         ELSE [kind |-> "return",
               response_text |-> ExceptClauses[FirstMatch(run_outcome.exc)].says,
               conversation_id |-> cid]

\* An update that also records the failed turn's question.
UpdatedHistoriesAlways(stored, run_outcome, cid, window, text) ==
    IF cid # None
    THEN Put(stored, cid,
             window \o (IF run_outcome.kind = "return"
                        THEN <<UserMsg(text), AssistantMsg(run_outcome.value)>>
                        ELSE <<UserMsg(text)>>))
    ELSE stored

\* The history update at the end of async_process ("only on success").
UpdatedHistories(stored, run_outcome, cid, window, text) ==
    IF run_outcome.kind = "return" /\ cid # None
    THEN Put(stored, cid, window \o <<UserMsg(text), AssistantMsg(run_outcome.value)>>)
    ELSE stored

\* process_conversation of server.py: 200 with the result, 500 when async_process raises.
HttpResponse(ap_outcome) ==
    IF ap_outcome.kind = "return"
    THEN [status |-> 200, response_text |-> ap_outcome.response_text,
          conversation_id |-> ap_outcome.conversation_id]
    ELSE [status |-> 500, response_text |-> "Internal server error", conversation_id |-> None]

\* ------------------------------------------------------------- loop, pure parts
\* A list that puts the caller's history after the new user message.
BuildMessagesHistoryLast(prompt, chat_history, text) ==
    (IF Truthy(prompt) THEN <<SystemMsg(prompt)>> ELSE <<>>)
        \o <<UserMsg(text)>> \o chat_history

\* The message list AgenticLoop.run starts from.
BuildMessages(prompt, chat_history, text) ==
    (IF Truthy(prompt) THEN <<SystemMsg(prompt)>> ELSE <<>>)
        \o chat_history \o <<UserMsg(text)>>

\* The caller's list as if run had worked on it in place (messages = chat_history).
CallerListShared(chat_history, msgs) == msgs

\* The chat_history list of the caller while run appends to its own `messages`:
\* `messages: list = []` is a new list and extend() copies the elements into
\* it, so the appends do not show in the caller's list.
CallerList(chat_history, msgs) == chat_history

\* A result message that is tagged with the tool's name.
RunOneMessageByName(tc, out) ==
    ToolMsg(tc.name, IF out.kind = "return" THEN out.value ELSE JsonError(out.exc))

\* _run_one: the tool-result message for call tc whose dispatch ended in `out`
\* ([kind |-> "return", value |-> s] or [kind |-> "raise", exc |-> e]).
RunOneMessage(tc, out) ==
    ToolMsg(tc.id, IF out.kind = "return" THEN out.value ELSE JsonError(out.exc))

\* _run_one without its try/except.
RunOneCatchesNothing(out) == out.kind = "raise"

\* What _run_one lets escape: nothing that is an Exception.
RunOneEscapes(out) == out.kind = "raise" /\ ~IsInstance(out.exc, "Exception")

\* ------------------------------------------------------------- inputs
\* User utterances.
Texts == {"q1", "q2"}

\* conversation_id values a caller supplies ("" is a str too).
CallerIds == {"", "a"}

\* str(uuid.uuid4()): fresh on every call, taken in order from a pool.
UuidPool == <<"uuid-1", "uuid-2">>

\* A dict is its items in insertion order.
ArgsLocation == << <<"location", "Kansas City, MO">> >>

ArgsEmpty == << >>

\* ToolCall(id, name, arguments) values a provider may request.
ToolCallPool ==
    { [id |-> "call_1", name |-> "get_weather", arguments |-> ArgsLocation],
      [id |-> "call_2", name |-> "get_datetime", arguments |-> ArgsEmpty] }

\* tool_calls lists of one response: at most MaxToolCalls calls, ids distinct.
CallLists ==
    { calls \in UNION { [1..n -> ToolCallPool] : n \in 0..MaxToolCalls } :
        \A i, j \in DOMAIN calls : calls[i].id = calls[j].id => i = j }

\* What one provider.complete call may return to a directly driven loop.
LoopResults ==
    { CompletionResult("stop", c, <<>>) : c \in {None, "", "It's 72F and sunny."} }
    \cup { CompletionResult("tool_calls", None, calls) : calls \in CallLists }
    \cup { CompletionResult("tool_calls", "Fallback text", <<>>),
           CompletionResult("content_filter", "Filtered response", <<>>),
           CompletionResult("length", None, <<>>) }

\* What provider.complete may raise.
ProviderErrors ==
    { Exc("LLMRateLimitError", "Rate limit exceeded: 429"),
      Exc("LLMConnectionError", "Could not connect to LLM endpoint"),
      Exc("LLMAPIError", "LLM API returned status 500"),
      Exc("ConnectionError", "API unreachable"),
      Exc("RuntimeError", "boom") }

\* How one tool dispatch may end: a result string, an exception of the tool,
\* or the asyncio.TimeoutError of the dispatcher's wait_for (whose str is "").
ToolOutcomes ==
    { [kind |-> "return", value |-> "{\"temp\": 72}"],
      [kind |-> "raise", exc |-> Exc("ValueError", "API unavailable")],
      [kind |-> "raise", exc |-> Exc("TimeoutError", "")] }

\* What provider.complete and the dispatcher do in turns that go through
\* async_process: a final answer, or one tool call.
EntityResults ==
    { CompletionResult("stop", "r1", <<>>),
      CompletionResult("tool_calls", None,
          <<[id |-> "call_1", name |-> "get_weather", arguments |-> ArgsLocation]>>) }

EntityToolOutcomes ==
    { [kind |-> "return", value |-> "{\"temp\": 72}"],
      [kind |-> "raise", exc |-> Exc("ValueError", "API unavailable")] }

\* The same for turns that overlap.
ConcurrentIds == {"a", "b"}

ConcurrentResults ==
    { CompletionResult("stop", "r1", <<>>),
      CompletionResult("tool_calls", None,
          <<[id |-> "call_1", name |-> "get_weather", arguments |-> ArgsLocation]>>) }

ConcurrentErrors == { Exc("LLMConnectionError", "Could not connect to LLM endpoint") }

ConcurrentToolOutcomes == { [kind |-> "return", value |-> "{\"temp\": 72}"] }

\* chat_history lists a direct caller of AgenticLoop.run passes.
DirectHistories ==
    { << >>, <<UserMsg("Previous"), AssistantMsg("Prior response")>> }

\* ------------------------------------------------------------- state
VARIABLES
    max_iterations,               \* AgenticLoop.max_iterations
    system_prompt,                \* AgenticLoop.system_prompt
    max_history_turns,            \* ChatterboxConversationEntity.max_history_turns
    auto_create_conversation_id,  \* ChatterboxConversationEntity.auto_create_conversation_id
    _histories,                    \* ChatterboxConversationEntity._histories
    uuids,                        \* how many uuid4() values have been drawn
    committed,                    \* per id: the messages of its successful turns so far
    turns,                        \* how many turns have been started
    pc,              \* per task: "idle", "awaiting_completion", "dispatching_tools", "done"
    caller,          \* per task: "none", "run" (AgenticLoop.run called directly), "async_process"
    user_text,       \* per task: user_input.text / user_text
    conversation_id, \* per task: user_input.conversation_id, as the caller gave it
    conv_id,         \* per task: the resolved conv_id of async_process
    history,         \* per task: the chat_history list passed to run
    dropped,         \* per task: the `dropped` of _truncate_history
    messages,        \* per task: the local `messages` of run
    iteration,       \* per task: the `iteration` of run's for loop
    tool_calls,      \* per task: result.tool_calls being dispatched
    call_state,      \* per task, per call: "pending", "running", "done", "failed"
    tool_outcomes,   \* per task, per call: how the dispatcher call ended
    tool_results,    \* per task, per call: the message _run_one returned (None before)
    provider_calls,  \* per task: provider.complete calls made by this run
    returned,        \* per task: the CompletionResults provider.complete returned to this run
    dispatched,      \* per task: the (name, arguments) the dispatcher was called with, in order
    backend,         \* per task: the responses chat.completions.create gave complete(), in order
    outcome,         \* per task: how run ended, [kind |-> "none"] while it has not
    response         \* per task: what POST /conversation answered, [status |-> 0] before

\* ToolRegistry.build_dispatcher and the _dispatch closure it returns.
VARIABLES
    _tools,             \* ToolRegistry._tools: tool name -> handler
    _tools_order,       \* the insertion order of the dict self._tools: its names, oldest first
    registry_call,      \* the last register/deregister call and how it ended
    registry_snapshot,  \* the dispatcher's registry_snapshot: tool name -> handler
    timeout,            \* build_dispatcher(timeout=...): None or the seconds, as written
    max_retries,        \* build_dispatcher(max_retries=...)
    retry_exceptions,   \* build_dispatcher(retry_exceptions=...): a set of class names
    dispatch_pc,        \* "unbuilt", "idle", "attempting" (awaiting the handler), "done"
    dispatch_name,      \* the `name` _dispatch was called with
    handler,            \* the `handler` _dispatch took from its snapshot (None: none)
    attempt,            \* the `attempt` of _dispatch's for loop
    handler_calls,      \* how each handler call of this _dispatch ended, in order
    dispatch_outcome    \* how _dispatch ended, [kind |-> "none"] while it has not

\* The DELETE endpoints of server.py.
VARIABLES
    delete_response     \* what the last DELETE request was answered (status 0: none yet)

config == <<max_iterations, system_prompt, max_history_turns, auto_create_conversation_id>>

entity == <<_histories, uuids>>

log == <<committed>>

locals == <<messages, iteration, tool_calls, call_state, tool_outcomes, tool_results>>

observed == <<provider_calls, returned, dispatched>>

wire == <<backend>>

turnvars == <<caller, user_text, conversation_id, conv_id, history, dropped>>

\* ToolResultCache, the CachingDispatcher in front of an inner dispatcher, and
\* the monotonic clock.
VARIABLES
    _ttl,             \* ToolResultCache._ttl
    _store,           \* ToolResultCache._store: key -> <<result, expires_at>>
    now,              \* time.monotonic()
    last_op,          \* the latest ToolResultCache method call and what it returned
    caching_pc,       \* per call slot: "idle", "awaiting_inner", "done"
    caching_request,  \* per call slot: the (name, args) of CachingDispatcher.__call__
    caching_outcome,  \* per call slot: how __call__ ended
    inner_calls,      \* per key: how often the inner dispatcher was invoked for it
    calls_made        \* how many CachingDispatcher calls have been started

\* RateLimiter.  The clock is read in units of 30 seconds.
VARIABLES
    calls_per_minute,  \* RateLimiter.calls_per_minute
    _timestamps,       \* RateLimiter._timestamps, oldest first
    _lock,             \* RateLimiter._lock: 0 when unlocked, else the task holding it
    acquire_pc,        \* per task: "idle", "waiting_lock", "sleeping", "done"
    sleep_until,       \* per task: the `sleep_until` of acquire
    acquired,          \* the timestamps all completed acquire calls recorded, in order
    acquires_made      \* how many acquire calls have been started

\* Everything of the conversation entity, its loop and its HTTP handlers.
conversation == <<config, entity, log, turns, pc, turnvars, locals, observed, wire, outcome,
                  response>>

dispatcher == <<_tools, _tools_order, registry_call, registry_snapshot, timeout, max_retries, retry_exceptions, dispatch_pc,
                dispatch_name, handler, attempt, handler_calls, dispatch_outcome>>

cache == <<_ttl, _store, now, last_op>>

caching == <<caching_pc, caching_request, caching_outcome, inner_calls, calls_made>>

limiter == <<calls_per_minute, _timestamps, _lock, acquire_pc, sleep_until, acquired,
             acquires_made>>

\* The components that are built and driven apart from the entity.
http == <<delete_response>>

components == <<dispatcher, cache, caching, limiter, http>>

vars == <<conversation, components>>

NoOutcome == [kind |-> "none"]

NoResponse == [status |-> 0]

NoDelete == [status |-> 0, id |-> None, seq |-> 0]

InitTasks ==
    /\ turns = 0
    /\ committed = << >>
    /\ pc = [t \in Tasks |-> "idle"]
    /\ caller = [t \in Tasks |-> "none"]
    /\ user_text = [t \in Tasks |-> None]
    /\ conversation_id = [t \in Tasks |-> None]
    /\ conv_id = [t \in Tasks |-> None]
    /\ history = [t \in Tasks |-> << >>]
    /\ dropped = [t \in Tasks |-> 0]
    /\ messages = [t \in Tasks |-> << >>]
    /\ iteration = [t \in Tasks |-> 0]
    /\ tool_calls = [t \in Tasks |-> << >>]
    /\ call_state = [t \in Tasks |-> << >>]
    /\ tool_outcomes = [t \in Tasks |-> << >>]
    /\ tool_results = [t \in Tasks |-> << >>]
    /\ provider_calls = [t \in Tasks |-> 0]
    /\ returned = [t \in Tasks |-> << >>]
    /\ dispatched = [t \in Tasks |-> << >>]
    /\ backend = [t \in Tasks |-> << >>]
    /\ delete_response = NoDelete
    /\ outcome = [t \in Tasks |-> NoOutcome]
    /\ response = [t \in Tasks |-> NoResponse]

\* A dispatcher as build_dispatcher() returns it by default, not called yet.
InitDispatchCall ==
    /\ dispatch_pc = "idle"
    /\ dispatch_name = None
    /\ handler = None
    /\ attempt = 0
    /\ handler_calls = << >>
    /\ dispatch_outcome = NoOutcome

NoRegistryCall == [op |-> "none", name |-> None, raised |-> None, seq |-> 0]

\* No tool registered, no dispatcher built.
DispatcherIdle ==
    /\ _tools = << >>
    /\ _tools_order = << >>
    /\ registry_call = NoRegistryCall
    /\ registry_snapshot = << >>
    /\ timeout = "30.0"
    /\ max_retries = 0
    /\ retry_exceptions = {"TimeoutError"}
    /\ InitDispatchCall

\* No ToolResultCache method has been called yet.
NoOp == [op |-> "none", args |-> << >>, key |-> None, result |-> None, removed |-> 0, seq |-> 0]

\* CachingDispatcher(inner, cache) with nothing stored and no call made.
InitCaching ==
    /\ _store = << >>
    /\ now = 0
    /\ last_op = NoOp
    /\ caching_pc = [c \in Tasks |-> "idle"]
    /\ caching_request = [c \in Tasks |-> None]
    /\ caching_outcome = [c \in Tasks |-> NoOutcome]
    /\ inner_calls = << >>
    /\ calls_made = 0

\* ToolResultCache() with its default ttl of 300 seconds.
CacheIdle ==
    /\ _ttl = 300
    /\ InitCaching

\* RateLimiter(...) before any acquire.
InitAcquires ==
    /\ _timestamps = << >>
    /\ _lock = 0
    /\ acquire_pc = [c \in Tasks |-> "idle"]
    /\ sleep_until = [c \in Tasks |-> 0]
    /\ acquired = << >>
    /\ acquires_made = 0

LimiterIdle ==
    /\ calls_per_minute = 1
    /\ InitAcquires

\* No component is in use.
ComponentsIdle == DispatcherIdle /\ CacheIdle /\ LimiterIdle

\* _DEFAULT_SYSTEM_PROMPT of entity.py
DefaultSystemPrompt == "You are Chatterbox, a helpful voice assistant integrated with Home Assistant."

\* ChatterboxConversationEntity.__init__: an entity with no session yet.
Init ==
    /\ max_iterations \in {1, 2}
    /\ system_prompt = DefaultSystemPrompt
    /\ max_history_turns \in 0..MaxHistoryTurns
    /\ auto_create_conversation_id \in BOOLEAN
    /\ _histories = << >>
    /\ uuids = 0
    /\ InitTasks
    /\ ComponentsIdle

\* The same entity for callers that always send their own conversation_id.
InitConcurrent ==
    /\ max_iterations \in {1, 2}
    /\ system_prompt = DefaultSystemPrompt
    /\ max_history_turns \in 0..MaxHistoryTurns
    /\ auto_create_conversation_id = FALSE
    /\ _histories = << >>
    /\ uuids = 0
    /\ InitTasks
    /\ ComponentsIdle

\* AgenticLoop.__init__: a loop on its own, driven by a direct caller of run.
InitLoop ==
    /\ max_iterations \in (-1)..MaxIterations
    /\ system_prompt \in {None, "", "Be brief."}
    /\ max_history_turns = 0
    /\ auto_create_conversation_id = FALSE
    /\ _histories = << >>
    /\ uuids = 0
    /\ InitTasks
    /\ ComponentsIdle

\* ------------------------------------------------------------- steps
\* The record of what successful turns have said on each id (never cleared).
Committed(sofar, o, cid, text) ==
    IF o.kind = "return" /\ cid # None
    THEN Put(sofar, cid, Get(sofar, cid, {}) \cup {UserMsg(text), AssistantMsg(o.value)})
    ELSE sofar

\* run has ended for task t with outcome o, and its frame is gone.  Called from
\* async_process (who), the except clauses, the history update and the HTTP
\* answer follow without an await, so they belong to the same step.
Finish(t, who, o, cid, text, window) ==
    /\ pc' = [pc EXCEPT ![t] = "done"]
    /\ outcome' = [outcome EXCEPT ![t] = o]
    /\ tool_calls' = [tool_calls EXCEPT ![t] = << >>]
    /\ call_state' = [call_state EXCEPT ![t] = << >>]
    /\ tool_outcomes' = [tool_outcomes EXCEPT ![t] = << >>]
    /\ tool_results' = [tool_results EXCEPT ![t] = << >>]
    /\ IF who = "async_process"
       THEN /\ _histories' = UpdatedHistories(_histories, o, cid, window, text)
            /\ response' = [response EXCEPT ![t] = HttpResponse(AsyncProcessOutcome(o, cid))]
            /\ committed' = Committed(committed, o, cid, text)
       ELSE /\ _histories' = _histories
            /\ response' = [response EXCEPT ![t] = NoResponse]
            /\ committed' = committed

\* The range taken one too long.
InRangeInclusive(it, limit) == it <= limit

\* A loop whose index does not advance.
NextIndexStuck(it) == it

\* The index `for iteration in range(...)` takes after index `it`.
NextIndex(it) == it + 1

\* `for iteration in range(self.max_iterations)`: is index `it` in the range?
InRange(it, limit) == it < limit

\* The head of run's for loop, reached with message list msgs and loop index it
\* after `made` provider calls: either provider.complete is awaited with msgs,
\* or the range is exhausted and run raises.
EnterIteration(t, who, msgs, it, made, cid, text, window) ==
    /\ iteration' = [iteration EXCEPT ![t] = it]
    /\ IF InRange(it, max_iterations)
       THEN /\ pc' = [pc EXCEPT ![t] = "awaiting_completion"]
            /\ messages' = [messages EXCEPT ![t] = msgs]
            /\ provider_calls' = [provider_calls EXCEPT ![t] = made + 1]
            /\ tool_calls' = [tool_calls EXCEPT ![t] = << >>]
            /\ call_state' = [call_state EXCEPT ![t] = << >>]
            /\ tool_outcomes' = [tool_outcomes EXCEPT ![t] = << >>]
            /\ tool_results' = [tool_results EXCEPT ![t] = << >>]
            /\ outcome' = [outcome EXCEPT ![t] = NoOutcome]
            /\ response' = [response EXCEPT ![t] = NoResponse]
            /\ _histories' = _histories
            /\ committed' = committed
       ELSE /\ provider_calls' = [provider_calls EXCEPT ![t] = made]
            /\ messages' = [messages EXCEPT ![t] = << >>]
            /\ Finish(t, who, [kind |-> "raise", exc |-> IterationLimitError],
                      cid, text, window)

\* Task slots are interchangeable: a new turn takes the first free one.
FirstFree(t) ==
    /\ pc[t] \in {"idle", "done"}
    /\ \A u \in Tasks : u < t => pc[u] \notin {"idle", "done"}

\* AgenticLoop.run called directly, up to its first await.
Run(t, text, chat_history) ==
    /\ pc[t] = "idle"
    /\ turns < MaxTurns
    /\ turns' = turns + 1
    /\ caller' = [caller EXCEPT ![t] = "run"]
    /\ user_text' = [user_text EXCEPT ![t] = text]
    /\ history' = [history EXCEPT ![t] = chat_history]
    /\ returned' = [returned EXCEPT ![t] = << >>]
    /\ dispatched' = [dispatched EXCEPT ![t] = << >>]
    /\ EnterIteration(t, "run", BuildMessages(system_prompt, chat_history, text),
                      0, 0, None, text, chat_history)
    /\ UNCHANGED <<components, backend, config, uuids, conversation_id, conv_id, dropped>>

\* The conv_id async_process resolves for a caller-supplied id (None: not given).
NeedsUuid(given) == given = None /\ auto_create_conversation_id

\* A resolution that generates an id whenever auto-creation is on.
ResolveConvIdIgnoresGiven(given) ==
    IF auto_create_conversation_id THEN UuidPool[1] ELSE given

ResolveConvId(given) == IF NeedsUuid(given) THEN UuidPool[uuids + 1] ELSE given

\* A read that takes whichever session is stored.
StoredHistoryAnySession(stored, cid) ==
    IF DOMAIN stored = {} THEN << >> ELSE stored[CHOOSE k \in DOMAIN stored : TRUE]

\* `self._histories.get(conv_id, []) if conv_id else []`
StoredHistory(stored, cid) == IF Truthy(cid) THEN Get(stored, cid, << >>) ELSE << >>

\* POST /conversation -> async_process, up to the first await inside run.
AsyncProcess(t, text, given) ==
    /\ FirstFree(t)
    /\ turns < MaxTurns
    /\ NeedsUuid(given) => uuids < Len(UuidPool)
    /\ turns' = turns + 1
    /\ LET cid == ResolveConvId(given)
           window == TruncateHistory(max_history_turns, StoredHistory(_histories, cid))
       IN  /\ caller' = [caller EXCEPT ![t] = "async_process"]
           /\ user_text' = [user_text EXCEPT ![t] = text]
           /\ conversation_id' = [conversation_id EXCEPT ![t] = given]
           /\ conv_id' = [conv_id EXCEPT ![t] = cid]
           /\ history' = [history EXCEPT ![t] = window]
           /\ dropped' = [dropped EXCEPT ![t] =
                 DroppedTurns(max_history_turns, StoredHistory(_histories, cid))]
           /\ uuids' = IF NeedsUuid(given) THEN uuids + 1 ELSE uuids
           /\ returned' = [returned EXCEPT ![t] = << >>]
           /\ dispatched' = [dispatched EXCEPT ![t] = << >>]
           /\ EnterIteration(t, "async_process",
                             BuildMessages(system_prompt, window, text),
                             0, 0, cid, text, window)
    /\ UNCHANGED <<components, backend, config>>

\* A loop that dispatches whenever the finish reason says so, even with no call.
ContinuesOnReasonAlone(r) == r.finish_reason = "tool_calls"

\* `if result.finish_reason == "tool_calls" and result.tool_calls:`
ContinuesWithTools(r) == r.finish_reason = "tool_calls" /\ Len(r.tool_calls) > 0

\* What run does with the result r of `await self.provider.complete(...)`.
LoopHandles(t, r) ==
    /\ pc[t] = "awaiting_completion"
    /\ returned' = [returned EXCEPT ![t] = Append(@, r)]
    /\ IF r.finish_reason = "stop"
       THEN /\ Finish(t, caller[t], [kind |-> "return", value |-> OrEmpty(r.content)],
                      conv_id[t], user_text[t], history[t])
            /\ messages' = [messages EXCEPT ![t] = << >>]
       ELSE IF ContinuesWithTools(r)
       THEN /\ messages' = [messages EXCEPT ![t] = Append(@, r.raw_message)]
            /\ tool_calls' = [tool_calls EXCEPT ![t] = r.tool_calls]
            /\ call_state' = [call_state EXCEPT ![t] =
                                 [i \in DOMAIN r.tool_calls |-> "pending"]]
            /\ tool_outcomes' = [tool_outcomes EXCEPT ![t] =
                                    [i \in DOMAIN r.tool_calls |-> NoOutcome]]
            /\ tool_results' = [tool_results EXCEPT ![t] =
                                   [i \in DOMAIN r.tool_calls |-> None]]
            /\ pc' = [pc EXCEPT ![t] = "dispatching_tools"]
            /\ UNCHANGED <<_histories, committed, outcome, response>>
       ELSE /\ Finish(t, caller[t], [kind |-> "return", value |-> OrEmpty(r.content)],
                      conv_id[t], user_text[t], history[t])
            /\ messages' = [messages EXCEPT ![t] = << >>]
    /\ history' = [history EXCEPT ![t] = CallerList(@, messages'[t])]
    /\ UNCHANGED <<config, uuids, turns, caller, user_text, conversation_id, conv_id, dropped,
                   iteration, provider_calls, dispatched>>

\* provider.complete returns result r to the run of task t.
ProviderReturns(t, r) == LoopHandles(t, r) /\ UNCHANGED <<components, backend>>

\* A loop that answers an exception of provider.complete by calling it again.
ProviderRaisesRetried(t, exc) ==
    /\ pc[t] = "awaiting_completion"
    /\ provider_calls[t] <= max_iterations
    /\ provider_calls' = [provider_calls EXCEPT ![t] = @ + 1]
    /\ UNCHANGED <<components, config, entity, log, turns, pc, turnvars, locals, returned,
                   dispatched, wire, outcome, response>>

\* provider.complete raises exc: run has no try around it.
ProviderRaises(t, exc) ==
    /\ pc[t] = "awaiting_completion"
    /\ Finish(t, caller[t], [kind |-> "raise", exc |-> exc],
              conv_id[t], user_text[t], history[t])
    /\ messages' = [messages EXCEPT ![t] = << >>]
    /\ UNCHANGED <<components, backend, config, uuids, turns, turnvars, iteration, observed>>

\* The task gather made for call i starts: _run_one calls the dispatcher.
\* asyncio starts the tasks in the order gather created them.
ToolStart(t, i) ==
    /\ pc[t] = "dispatching_tools"
    /\ i \in DOMAIN call_state[t]
    /\ call_state[t][i] = "pending"
    /\ \A j \in 1..(i - 1) : call_state[t][j] # "pending"
    /\ call_state' = [call_state EXCEPT ![t][i] = "running"]
    /\ dispatched' = [dispatched EXCEPT ![t] =
                         Append(@, <<tool_calls[t][i].name, tool_calls[t][i].arguments>>)]
    /\ UNCHANGED <<components, backend, config, entity, log, turns, pc, turnvars, messages, iteration, tool_calls,
                   tool_outcomes, tool_results, provider_calls, returned, outcome, response>>

\* What _run_one and gather do when the dispatcher call of call i ends in `out`:
\* _run_one turns it into a message, or lets it escape, and then gather hands
\* the exception to run at once.
ToolEnds(t, i, out) ==
    /\ pc[t] = "dispatching_tools"
    /\ i \in DOMAIN call_state[t]
    /\ call_state[t][i] = "running"
    /\ IF RunOneEscapes(out)
       THEN /\ Finish(t, caller[t], out, conv_id[t], user_text[t], history[t])
            /\ messages' = [messages EXCEPT ![t] = << >>]
       ELSE /\ call_state' = [call_state EXCEPT ![t][i] = "done"]
            /\ tool_outcomes' = [tool_outcomes EXCEPT ![t][i] = out]
            /\ tool_results' = [tool_results EXCEPT ![t][i] =
                                   RunOneMessage(tool_calls[t][i], out)]
            /\ UNCHANGED <<pc, _histories, committed, outcome, response, messages, tool_calls>>
    /\ UNCHANGED <<backend, config, uuids, turns, turnvars, iteration, observed>>

\* The dispatcher call of call i ends in `out`.
ToolCompletes(t, i, out) == ToolEnds(t, i, out) /\ UNCHANGED components

\* Tasks that are created and never awaited.
GatherNotAwaited(states) == \A i \in DOMAIN states : states[i] # "pending"

\* A wait that returns on the first completed task.
GatherFirstCompleted(states) == \E i \in DOMAIN states : states[i] = "done"

\* gather is complete when every task it made is done.
GatherDone(states) == \A i \in DOMAIN states : states[i] = "done"

\* gather returns: the results are appended in call order and the loop continues.
DispatchJoin(t) ==
    /\ pc[t] = "dispatching_tools"
    /\ GatherDone(call_state[t])
    /\ EnterIteration(t, caller[t], messages[t] \o tool_results[t], NextIndex(iteration[t]),
                      provider_calls[t], conv_id[t], user_text[t], history[t])
    /\ history' = [history EXCEPT ![t] = CallerList(@, messages'[t])]
    /\ UNCHANGED <<components, backend, config, uuids, turns, caller, user_text, conversation_id,
                   conv_id, dropped, returned, dispatched>>

\* A clear that drops every session.
HistoriesAfterClearDropsAll(stored, cid) == << >>

\* `self._histories.pop(conversation_id, None)`
HistoriesAfterClear(stored, cid) == Pop(stored, cid)

\* clear_history(conversation_id), called on the entity.
ClearHistory(cid) ==
    /\ _histories' = HistoriesAfterClear(_histories, cid)
    /\ UNCHANGED <<components, backend, config, uuids, log, turns, pc, turnvars, locals, observed, outcome, response>>

\* clear_all_history(), called on the entity.
ClearAllHistory ==
    /\ _histories' = << >>
    /\ UNCHANGED <<components, backend, config, uuids, log, turns, pc, turnvars, locals, observed, outcome, response>>

\* ------------------------------------------------------------- tool dispatcher
\* No entity: the component under study is driven on its own.
ConversationIdle ==
    /\ max_iterations = 0
    /\ system_prompt = None
    /\ max_history_turns = 0
    /\ auto_create_conversation_id = FALSE
    /\ _histories = << >>
    /\ uuids = 0
    /\ InitTasks

\* Tool names a caller may ask the dispatcher for.
ToolNames == {"get_weather", "get_datetime"}

\* Values of build_dispatcher's retry_exceptions (the default is the timeout).
RetrySets == { {"TimeoutError"}, {}, {"Exception"} }

\* How one call of a tool handler may end by itself.
HandlerOutcomes ==
    { [kind |-> "return", value |-> "{\"temp\": 72}"],
      [kind |-> "raise", exc |-> Exc("ValueError", "bad args")],
      [kind |-> "raise", exc |-> Exc("TimeoutError", "upstream timed out")] }

\* registry.build_dispatcher(timeout, max_retries, retry_exceptions) with
\* get_weather registered.
InitDispatch ==
    /\ _tools = Put(<< >>, "get_weather", "weather_v1")
    /\ _tools_order = <<"get_weather">>
    /\ registry_call = NoRegistryCall
    /\ registry_snapshot = _tools
    /\ timeout \in {None, "30.0"}
    /\ max_retries \in 0..MaxRetries
    /\ retry_exceptions \in RetrySets
    /\ InitDispatchCall
    /\ CacheIdle
    /\ LimiterIdle
    /\ ConversationIdle

\* An unknown-tool answer that is plain text.
UnknownToolText(name) == "Unknown tool: '" \o name \o "'"

\* json.dumps({"error": f"Unknown tool: {name!r}"})
UnknownToolJson(name) == "{\"error\": \"Unknown tool: '" \o name \o "'\"}"

\* total_attempts = max_retries + 1
TotalAttempts(retries) == retries + 1

\* `retry_exceptions and isinstance(exc, retry_exceptions)`
IsRetryable(exc, retryable) == retryable # {} /\ \E cls \in retryable : IsInstance(exc, cls)

\* A budget test that allows one attempt more.
HasAttemptsLeftInclusive(n, total) == n <= total

\* `attempt < total_attempts`
HasAttemptsLeft(n, total) == n < total

\* _dispatch(name, args) up to its first await: the unknown-tool answer, or the
\* first call of the handler.
DispatchCall(name) ==
    /\ dispatch_pc \in {"idle", "done"}
    /\ dispatch_name' = name
    /\ handler_calls' = << >>
    /\ IF name \notin DOMAIN registry_snapshot
       THEN /\ dispatch_pc' = "done"
            /\ handler' = None
            /\ attempt' = 0
            /\ dispatch_outcome' = [kind |-> "return", value |-> UnknownToolJson(name)]
       ELSE /\ dispatch_pc' = "attempting"
            /\ handler' = registry_snapshot[name]
            /\ attempt' = 1
            /\ dispatch_outcome' = NoOutcome
    /\ UNCHANGED <<_tools, _tools_order, registry_call, registry_snapshot, timeout, max_retries,
                   retry_exceptions>>

\* The dispatcher is called on its own.
Dispatch(name) == DispatchCall(name) /\ UNCHANGED <<conversation, http, cache, caching, limiter>>

\* The awaited handler call ends in `out`: return it, retry, or re-raise.
AttemptEnds(out) ==
    /\ dispatch_pc = "attempting"
    /\ handler_calls' = Append(handler_calls, out)
    /\ IF out.kind = "return"
       THEN /\ dispatch_pc' = "done"
            /\ dispatch_outcome' = out
            /\ attempt' = attempt
       ELSE IF IsRetryable(out.exc, retry_exceptions)
                 /\ HasAttemptsLeft(attempt, TotalAttempts(max_retries))
       THEN /\ dispatch_pc' = "attempting"
            /\ dispatch_outcome' = NoOutcome
            /\ attempt' = attempt + 1
       ELSE /\ dispatch_pc' = "done"
            /\ dispatch_outcome' = out
            /\ attempt' = attempt
    /\ UNCHANGED <<conversation, http, cache, caching, limiter, _tools, _tools_order,
                   registry_call, registry_snapshot, timeout,
                   max_retries, retry_exceptions, dispatch_name, handler>>

\* The handler returns or raises by itself.
HandlerEnds(out) == AttemptEnds(out)

\* The handler is still running when asyncio.wait_for's timeout expires.
WaitForTimesOut ==
    /\ timeout # None
    /\ AttemptEnds([kind |-> "raise", exc |-> Exc("TimeoutError", "")])

NextDispatch ==
    \/ \E name \in ToolNames : Dispatch(name)
    \/ \E out \in HandlerOutcomes : HandlerEnds(out)
    \/ WaitForTimesOut

SpecDispatch == InitDispatch /\ [][NextDispatch]_vars

\* ------------------------------------------------------------- tool registry
\* Handlers that may be registered under a name.
Handlers == {"weather_v1", "weather_v2"}

\* A dispatcher that looks names up in the registry itself.
SnapshotIsRegistry(snapshot, tools) == tools

\* What a built dispatcher's registry_snapshot is after a write to
\* self._tools: `dict(self._tools)` made a copy, which the write does not reach.
SnapshotAfterWrite(snapshot, tools) == snapshot

\* A register that overwrites the entry of a name already there.
ToolsAfterDuplicateOverwrites(tools, name, h) == Put(tools, name, h)

\* self._tools after register(name) was refused: `raise ValueError` comes
\* before any write.
ToolsAfterDuplicate(tools, name, h) == tools

\* A dict's order after `d[key] = value` for a key it lacks: the key goes last.
OrderAfterInsert(order, name) == Append(order, name)

\* A dict's order after `del d[key]`.
OrderAfterDelete(order, name) == SelectSeq(order, LAMBDA n : n # name)

\* The record of a register/deregister call that ended with `raised`.
RegistryCall(op, name, raised) ==
    [op |-> op, name |-> name, raised |-> raised, seq |-> 1 - registry_call.seq]

\* register(definition, handler); a name already registered raises ValueError
\* and changes nothing.
Register(name, h) ==
    /\ IF name \in DOMAIN _tools
       THEN /\ _tools' = ToolsAfterDuplicate(_tools, name, h)
            /\ _tools_order' = _tools_order
            /\ registry_call' = RegistryCall("register", name, "ValueError")
       ELSE /\ _tools' = Put(_tools, name, h)
            /\ _tools_order' = OrderAfterInsert(_tools_order, name)
            /\ registry_call' = RegistryCall("register", name, None)
    /\ registry_snapshot' = SnapshotAfterWrite(registry_snapshot, _tools')
    /\ UNCHANGED <<conversation, http, cache, caching, limiter, timeout, max_retries, retry_exceptions,
                   dispatch_pc, dispatch_name, handler, attempt, handler_calls,
                   dispatch_outcome>>

\* deregister(name); a name not registered raises KeyError and changes nothing.
Deregister(name) ==
    /\ IF name \notin DOMAIN _tools
       THEN /\ UNCHANGED <<_tools, _tools_order>>
            /\ registry_call' = RegistryCall("deregister", name, "KeyError")
       ELSE /\ _tools' = Pop(_tools, name)
            /\ _tools_order' = OrderAfterDelete(_tools_order, name)
            /\ registry_call' = RegistryCall("deregister", name, None)
    /\ registry_snapshot' = SnapshotAfterWrite(registry_snapshot, _tools')
    /\ UNCHANGED <<conversation, http, cache, caching, limiter, timeout, max_retries, retry_exceptions,
                   dispatch_pc, dispatch_name, handler, attempt, handler_calls,
                   dispatch_outcome>>

\* get_definitions(): `[defn for defn, _handler in self._tools.values()]`, a
\* definition standing as its name.
GetDefinitions == _tools_order

\* build_dispatcher() with its default arguments.
BuildDispatcher ==
    /\ dispatch_pc = "unbuilt"
    /\ registry_snapshot' = _tools
    /\ dispatch_pc' = "idle"
    /\ UNCHANGED <<conversation, http, cache, caching, limiter, _tools, _tools_order,
                   registry_call, timeout, max_retries,
                   retry_exceptions, dispatch_name, handler, attempt, handler_calls,
                   dispatch_outcome>>

\* ToolRegistry(): nothing registered, no dispatcher built yet.
InitRegistry ==
    /\ _tools = << >>
    /\ _tools_order = << >>
    /\ registry_call = NoRegistryCall
    /\ registry_snapshot = << >>
    /\ timeout = "30.0"
    /\ max_retries = 0
    /\ retry_exceptions = {"TimeoutError"}
    /\ dispatch_pc = "unbuilt"
    /\ dispatch_name = None
    /\ handler = None
    /\ attempt = 0
    /\ handler_calls = << >>
    /\ dispatch_outcome = NoOutcome
    /\ CacheIdle
    /\ LimiterIdle
    /\ ConversationIdle

NextRegistry ==
    \/ \E name \in ToolNames, h \in Handlers : Register(name, h)
    \/ \E name \in ToolNames : Deregister(name)
    \/ BuildDispatcher
    \/ \E name \in ToolNames : Dispatch(name)
    \/ \E out \in HandlerOutcomes : HandlerEnds(out)
    \/ WaitForTimesOut

SpecRegistry == InitRegistry /\ [][NextRegistry]_vars

\* ------------------------------------------------------------- loop over a built dispatcher
\* What provider.complete returns to a loop whose tool_dispatcher is a built
\* dispatcher: a final answer, or calls of get_weather and get_datetime.
ToolLoopResults ==
    { CompletionResult("stop", "It's 72F and sunny.", <<>>) }
    \cup { CompletionResult("tool_calls", None, calls) : calls \in CallLists \ {<< >>} }

\* AgenticLoop(provider, tool_dispatcher=registry.build_dispatcher(...)) with
\* get_weather registered.
InitToolLoop ==
    /\ max_iterations \in 1..MaxIterations
    /\ system_prompt = None
    /\ max_history_turns = 0
    /\ auto_create_conversation_id = FALSE
    /\ _histories = << >>
    /\ uuids = 0
    /\ InitTasks
    /\ _tools = Put(<< >>, "get_weather", "weather_v1")
    /\ _tools_order = <<"get_weather">>
    /\ registry_call = NoRegistryCall
    /\ registry_snapshot = _tools
    /\ timeout \in {None, "30.0"}
    /\ max_retries \in 0..MaxRetries
    /\ retry_exceptions \in RetrySets
    /\ InitDispatchCall
    /\ CacheIdle
    /\ LimiterIdle

\* _run_one awaits the dispatcher for a name its snapshot lacks: _dispatch
\* returns before any await, and _run_one makes the tool message of the answer.
UnknownToolAnswered(t, i) ==
    /\ i \in DOMAIN tool_calls[t]
    /\ tool_calls[t][i].name \notin DOMAIN registry_snapshot
    /\ DispatchCall(tool_calls[t][i].name)
    /\ ToolEnds(t, i, dispatch_outcome')
    /\ UNCHANGED <<cache, caching, limiter, http>>

\* The dispatch of a tool the snapshot holds ends (the handler's attempts are
\* the subject of SpecDispatch; here only their outcome counts).
KnownToolCompletes(t, i, out) ==
    /\ i \in DOMAIN tool_calls[t]
    /\ tool_calls[t][i].name \in DOMAIN registry_snapshot
    /\ ToolCompletes(t, i, out)

NextToolLoop ==
    \/ Run(1, "q1", << >>)
    \/ \E r \in ToolLoopResults : ProviderReturns(1, r)
    \/ \E i \in 1..MaxToolCalls : ToolStart(1, i)
    \/ \E i \in 1..MaxToolCalls : UnknownToolAnswered(1, i)
    \/ \E i \in 1..MaxToolCalls, out \in EntityToolOutcomes : KnownToolCompletes(1, i, out)
    \/ DispatchJoin(1)

SpecToolLoop == InitToolLoop /\ [][NextToolLoop]_vars

\* ------------------------------------------------------------- tool result cache
\* Argument names in the order sort_keys=True puts them.
KeyOrder == <<"location", "units">>

ArgsLocationUnits == << <<"location", "Kansas City, MO">>, <<"units", "metric">> >>

ArgsUnitsLocation == << <<"units", "metric">>, <<"location", "Kansas City, MO">> >>

\* Argument dicts a caller may pass, as items in insertion order.
CacheArgs == {ArgsEmpty, ArgsLocationUnits, ArgsUnitsLocation}

\* The (name, args) pairs the LLM asks for.
CacheRequests ==
    { [name |-> "get_weather", args |-> ArgsLocationUnits],
      [name |-> "get_weather", args |-> ArgsUnitsLocation],
      [name |-> "get_datetime", args |-> ArgsEmpty] }

\* Strings the inner dispatcher may return, and what it may raise.
InnerResults == {"{\"temp\": 72}", "{\"temp\": 75}"}

InnerErrors == {Exc("TimeoutError", "")}

\* ToolResultCache(ttl=...): disabled (negative or zero), or one or two ticks
\* of the clock.
Ttls == {-1, 0, 1, 2}

\* The items of args whose key is k (a dict has at most one).
ItemsOf(args, k) == SelectSeq(args, LAMBDA item : item[1] = k)

RECURSIVE SortedFrom(_, _)
\* The items of args in sort_keys order, from the n-th key of KeyOrder on.
SortedFrom(args, n) ==
    IF n > Len(KeyOrder) THEN << >> ELSE ItemsOf(args, KeyOrder[n]) \o SortedFrom(args, n + 1)

RECURSIVE JoinItems(_)
JoinItems(items) ==
    IF items = << >>
    THEN ""
    ELSE "\"" \o items[1][1] \o "\": \"" \o items[1][2] \o "\""
             \o (IF Len(items) > 1 THEN ", " \o JoinItems(Tail(items)) ELSE "")

\* json.dumps without sort_keys: the items in insertion order.
JsonDumpsUnsorted(args) == "{" \o JoinItems(args) \o "}"

\* json.dumps(args, sort_keys=True, default=str)
JsonDumpsSorted(args) == "{" \o JoinItems(SortedFrom(args, 1)) \o "}"

\* ToolResultCache._make_key
MakeKey(name, args) == name \o ":" \o JsonDumpsSorted(args)

\* An expiry test that already fails at the deadline.
ExpiredAtDeadline(clock, expires_at) == clock >= expires_at

\* `time.monotonic() > expires_at`
Expired(clock, expires_at) == clock > expires_at

\* A get that finds nothing.
GetResultAlwaysMiss(store, ttl, clock, key) == None

\* What ToolResultCache.get returns for key (None: a miss).
GetResult(store, ttl, clock, key) ==
    IF ttl <= 0 THEN None
    ELSE IF key \notin DOMAIN store THEN None
    ELSE IF Expired(clock, store[key][2]) THEN None
    ELSE store[key][1]

\* The store ToolResultCache.get leaves behind: an expired entry is deleted.
StoreAfterGet(store, ttl, clock, key) ==
    IF ttl > 0 /\ key \in DOMAIN store /\ Expired(clock, store[key][2])
    THEN Pop(store, key)
    ELSE store

\* A put that stores whatever the ttl is.
StoreAfterPutAnyTtl(store, ttl, clock, key, result) == Put(store, key, <<result, clock + ttl>>)

\* A put that forgets to add the ttl.
StoreAfterPutExpiresNow(store, ttl, clock, key, result) ==
    IF ttl <= 0 THEN store ELSE Put(store, key, <<result, clock>>)

\* The store ToolResultCache.put leaves behind.
StoreAfterPut(store, ttl, clock, key, result) ==
    IF ttl <= 0 THEN store ELSE Put(store, key, <<result, clock + ttl>>)

\* What can follow "<name>:" in a key.
KeyTails == {JsonDumpsSorted(a) : a \in CacheArgs}

\* What may stand between a tool name and the JSON text in a key: nothing,
\* or the rest of a longer tool name that goes on with ":".
NameRests == {"", "daily:"}

\* key.startswith(prefix)
StartsWith(key, prefix) ==
    \E rest \in NameRests, tail \in KeyTails : key = prefix \o rest \o tail

\* How many entries a get of key deletes.
Evicted(store, ttl, clock, key) ==
    Cardinality(DOMAIN store) - Cardinality(DOMAIN StoreAfterGet(store, ttl, clock, key))

\* The record of one ToolResultCache method call: the args it was given (<< >>
\* when it takes none), the key it made, its result and how many entries it
\* removed from the store.
Op(op, args, key, result, removed) ==
    [op |-> op, args |-> args, key |-> key, result |-> result, removed |-> removed,
     seq |-> 1 - last_op.seq]

\* time.monotonic() advances; nothing runs in the background.
Tick ==
    /\ now < MaxClock
    /\ now' = now + 1
    /\ UNCHANGED <<conversation, http, dispatcher, _ttl, _store, last_op, caching, limiter>>

\* cache.get(name, args), called directly.
CacheGet(name, args) ==
    LET key == MakeKey(name, args)
    IN  /\ _store' = StoreAfterGet(_store, _ttl, now, key)
        /\ last_op' = Op("get", args, key, GetResult(_store, _ttl, now, key),
                         Evicted(_store, _ttl, now, key))
        /\ UNCHANGED <<conversation, http, dispatcher, limiter, _ttl, now, caching>>

\* cache.put(name, args, result), called directly.
CachePut(name, args, result) ==
    LET key == MakeKey(name, args)
    IN  /\ _store' = StoreAfterPut(_store, _ttl, now, key, result)
        /\ last_op' = Op("put", args, key, None, 0)
        /\ UNCHANGED <<conversation, http, dispatcher, limiter, _ttl, now, caching>>

\* cache.invalidate(name, args) with args given.
Invalidate(name, args) ==
    LET key == MakeKey(name, args)
    IN  /\ _store' = Pop(_store, key)
        /\ last_op' = Op("invalidate", args, key, None, IF key \in DOMAIN _store THEN 1 ELSE 0)
        /\ UNCHANGED <<conversation, http, dispatcher, limiter, _ttl, now, caching>>

\* cache.invalidate(name): every entry whose key starts with "<name>:".
InvalidateAll(name) ==
    LET keys_to_remove == {k \in DOMAIN _store : StartsWith(k, name \o ":")}
    IN  /\ _store' = [k \in DOMAIN _store \ keys_to_remove |-> _store[k]]
        /\ last_op' = Op("invalidate", << >>, name \o ":", None, Cardinality(keys_to_remove))
        /\ UNCHANGED <<conversation, http, dispatcher, limiter, _ttl, now, caching>>

\* cache.clear()
CacheClear ==
    /\ _store' = << >>
    /\ last_op' = Op("clear", << >>, None, None, Cardinality(DOMAIN _store))
    /\ UNCHANGED <<conversation, http, dispatcher, limiter, _ttl, now, caching>>

\* Call slots are interchangeable: a new call takes the first free one.
FirstFreeSlot(c) ==
    /\ caching_pc[c] \in {"idle", "done"}
    /\ \A d \in Tasks : d < c => caching_pc[d] \notin {"idle", "done"}

\* CachingDispatcher.__call__(name, args) up to its first await: a hit returns
\* at once, a miss calls the inner dispatcher.
CachingCall(c, name, args) ==
    LET key == MakeKey(name, args)
        cached == GetResult(_store, _ttl, now, key)
    IN  /\ FirstFreeSlot(c)
        /\ calls_made < MaxCalls
        /\ calls_made' = calls_made + 1
        /\ caching_request' = [caching_request EXCEPT ![c] = [name |-> name, args |-> args]]
        /\ _store' = StoreAfterGet(_store, _ttl, now, key)
        /\ last_op' = Op("get", args, key, cached, Evicted(_store, _ttl, now, key))
        /\ IF cached # None
           THEN /\ caching_pc' = [caching_pc EXCEPT ![c] = "done"]
                /\ caching_outcome' = [caching_outcome EXCEPT ![c] =
                                          [kind |-> "return", value |-> cached]]
                /\ inner_calls' = inner_calls
           ELSE /\ caching_pc' = [caching_pc EXCEPT ![c] = "awaiting_inner"]
                /\ caching_outcome' = [caching_outcome EXCEPT ![c] = NoOutcome]
                /\ inner_calls' = Put(inner_calls, key, Get(inner_calls, key, 0) + 1)
        /\ UNCHANGED <<conversation, http, dispatcher, limiter, _ttl, now>>

\* The inner dispatcher returns: the result is stored and returned.
InnerReturns(c, result) ==
    LET key == MakeKey(caching_request[c].name, caching_request[c].args)
    IN  /\ caching_pc[c] = "awaiting_inner"
        /\ _store' = StoreAfterPut(_store, _ttl, now, key, result)
        /\ last_op' = Op("put", caching_request[c].args, key, None, 0)
        /\ caching_pc' = [caching_pc EXCEPT ![c] = "done"]
        /\ caching_outcome' = [caching_outcome EXCEPT ![c] =
                                  [kind |-> "return", value |-> result]]
        /\ UNCHANGED <<conversation, http, dispatcher, limiter, _ttl, now, caching_request, inner_calls,
                       calls_made>>

\* A dispatcher that caches the failure as an error result.
StoreAfterRaiseCachesError(store, ttl, clock, key, exc) ==
    StoreAfterPut(store, ttl, clock, key, JsonError(exc))

\* self._cache._store after `await self._inner(name, args)` raised: the put on
\* the next line is not reached.
StoreAfterRaise(store, ttl, clock, key, exc) == store

\* The inner dispatcher raises: __call__ has no try, nothing is stored.
InnerRaises(c, exc) ==
    LET key == MakeKey(caching_request[c].name, caching_request[c].args)
    IN  /\ caching_pc[c] = "awaiting_inner"
        /\ caching_pc' = [caching_pc EXCEPT ![c] = "done"]
        /\ caching_outcome' = [caching_outcome EXCEPT ![c] = [kind |-> "raise", exc |-> exc]]
        /\ _store' = StoreAfterRaise(_store, _ttl, now, key, exc)
        /\ UNCHANGED <<conversation, http, dispatcher, limiter, _ttl, now, last_op,
                       caching_request, inner_calls, calls_made>>

\* ToolResultCache(ttl), nothing stored.
InitCache ==
    /\ _ttl \in Ttls
    /\ InitCaching
    /\ DispatcherIdle
    /\ LimiterIdle
    /\ ConversationIdle

\* The cache driven through its own methods.
NextCache ==
    \/ Tick
    \/ \E r \in CacheRequests : CacheGet(r.name, r.args)
    \/ \E r \in CacheRequests, result \in InnerResults : CachePut(r.name, r.args, result)
    \/ \E r \in CacheRequests : Invalidate(r.name, r.args)
    \/ \E name \in ToolNames : InvalidateAll(name)
    \/ CacheClear

SpecCache == InitCache /\ [][NextCache]_vars

\* Tool names of which one is another followed by ":" and more.
PrefixToolNames == ToolNames \cup {"get_weather:daily"}

PrefixRequests ==
    CacheRequests \cup { [name |-> "get_weather:daily", args |-> ArgsEmpty] }

\* The cache of a registry that holds such names.
NextInvalidate ==
    \/ Tick
    \/ \E r \in PrefixRequests : CacheGet(r.name, r.args)
    \/ \E r \in PrefixRequests, result \in InnerResults : CachePut(r.name, r.args, result)
    \/ \E r \in PrefixRequests : Invalidate(r.name, r.args)
    \/ \E name \in PrefixToolNames : InvalidateAll(name)
    \/ CacheClear

SpecInvalidate == InitCache /\ [][NextInvalidate]_vars

\* The cache behind a CachingDispatcher, as the loop uses it: calls may overlap.
NextCaching ==
    \/ Tick
    \/ \E c \in Tasks, r \in CacheRequests : CachingCall(c, r.name, r.args)
    \/ \E c \in Tasks, result \in InnerResults : InnerReturns(c, result)
    \/ \E c \in Tasks, exc \in InnerErrors : InnerRaises(c, exc)
    \/ CacheClear

SpecCaching == InitCache /\ [][NextCaching]_vars

\* ToolResultCache(ttl) with ttl <= 0.
InitCacheDisabled ==
    /\ _ttl \in {ttl \in Ttls : ttl <= 0}
    /\ InitCaching
    /\ DispatcherIdle
    /\ LimiterIdle
    /\ ConversationIdle

\* A disabled cache, driven through its own methods and through a
\* CachingDispatcher.
NextCacheDisabled ==
    \/ Tick
    \/ \E r \in CacheRequests : CacheGet(r.name, r.args)
    \/ \E r \in CacheRequests, result \in InnerResults : CachePut(r.name, r.args, result)
    \/ \E r \in CacheRequests : Invalidate(r.name, r.args)
    \/ \E name \in ToolNames : InvalidateAll(name)
    \/ CacheClear
    \/ \E c \in Tasks, r \in CacheRequests : CachingCall(c, r.name, r.args)
    \/ \E c \in Tasks, result \in InnerResults : InnerReturns(c, result)
    \/ \E c \in Tasks, exc \in InnerErrors : InnerRaises(c, exc)

SpecCacheDisabled == InitCacheDisabled /\ [][NextCacheDisabled]_vars

\* ------------------------------------------------------------- rate limiter
\* RateLimiter._window_seconds = 60.0, in clock units of 30 seconds.
WindowTicks == 2

\* Values of calls_per_minute.
Rates == {1, 2}

RECURSIVE Prune(_, _)
\* `while self._timestamps and self._timestamps[0] < cutoff: popleft()`
Prune(stamps, cutoff) ==
    IF stamps # << >> /\ stamps[1] < cutoff THEN Prune(Tail(stamps), cutoff) ELSE stamps

\* The body of acquire once the lock is held by task c, up to its await or its
\* end: prune, sleep when at capacity, else record the timestamp and unlock.
AcquireLocked(c) ==
    LET pruned == Prune(_timestamps, now - WindowTicks)
    IN  IF Len(pruned) >= calls_per_minute /\ (pruned[1] + WindowTicks) - now > 0
        THEN /\ _timestamps' = pruned
             /\ _lock' = c
             /\ acquire_pc' = [acquire_pc EXCEPT ![c] = "sleeping"]
             /\ sleep_until' = [sleep_until EXCEPT ![c] = pruned[1] + WindowTicks]
             /\ acquired' = acquired
        ELSE /\ _timestamps' = Append(pruned, now)
             /\ _lock' = 0
             /\ acquire_pc' = [acquire_pc EXCEPT ![c] = "done"]
             /\ sleep_until' = sleep_until
             /\ acquired' = Append(acquired, now)

\* A lock that lets everybody in.
LockAlwaysFree(lock) == TRUE

\* asyncio.Lock: `async with self._lock` may enter when no task holds it
\* (0: not held, else the task that holds it).
LockFree(lock) == lock = 0

\* await limiter.acquire(): `async with self._lock` enters at once when the
\* lock is free and waits for it otherwise.
Acquire(c) ==
    /\ acquire_pc[c] \in {"idle", "done"}
    /\ acquires_made < MaxAcquires
    /\ acquires_made' = acquires_made + 1
    /\ IF LockFree(_lock)
       THEN AcquireLocked(c)
       ELSE /\ acquire_pc' = [acquire_pc EXCEPT ![c] = "waiting_lock"]
            /\ UNCHANGED <<_timestamps, _lock, sleep_until, acquired>>
    /\ UNCHANGED <<conversation, http, dispatcher, cache, caching, calls_per_minute>>

\* The lock has been released and is handed to the waiting task.
LockGranted(c) ==
    /\ acquire_pc[c] = "waiting_lock"
    /\ LockFree(_lock)
    /\ AcquireLocked(c)
    /\ UNCHANGED <<conversation, http, dispatcher, cache, caching, calls_per_minute, acquires_made>>

\* asyncio.sleep(sleep_secs) returns, not before sleep_until: prune again,
\* record the timestamp, unlock.
Wake(c) ==
    /\ acquire_pc[c] = "sleeping"
    /\ now >= sleep_until[c]
    /\ _timestamps' = Append(Prune(_timestamps, now - WindowTicks), now)
    /\ acquired' = Append(acquired, now)
    /\ _lock' = 0
    /\ acquire_pc' = [acquire_pc EXCEPT ![c] = "done"]
    /\ UNCHANGED <<conversation, http, dispatcher, cache, caching, calls_per_minute, sleep_until,
                   acquires_made>>

\* RateLimiter(calls_per_minute)
InitLimiter ==
    /\ calls_per_minute \in Rates
    /\ InitAcquires
    /\ DispatcherIdle
    /\ CacheIdle
    /\ ConversationIdle

NextLimiter ==
    \/ Tick
    \/ \E c \in Tasks : Acquire(c)
    \/ \E c \in Tasks : LockGranted(c)
    \/ \E c \in Tasks : Wake(c)

SpecLimiter == InitLimiter /\ [][NextLimiter]_vars

\* ------------------------------------------------------------- provider
\* tc.function.arguments strings a backend may send.
ArgumentStrings ==
    {"{\"location\": \"Kansas City, MO\"}", "{}", "not json", "[\"Kansas City, MO\"]"}

\* The list ["Kansas City, MO"]: a dict is its <<key, value>> items, a list its
\* <<value>> items.
ArgsList == << <<"Kansas City, MO">> >>

\* json.loads of an arguments string: the decoded value (whatever JSON type the
\* string holds), or JSONDecodeError.
JsonLoads(s) ==
    IF s = "{\"location\": \"Kansas City, MO\"}" THEN [ok |-> TRUE, value |-> ArgsLocation]
    ELSE IF s = "{}" THEN [ok |-> TRUE, value |-> ArgsEmpty]
    ELSE IF s = "[\"Kansas City, MO\"]" THEN [ok |-> TRUE, value |-> ArgsList]
    ELSE [ok |-> FALSE, value |-> ArgsEmpty]

\* try: args = json.loads(...) except json.JSONDecodeError: args = {}
DecodeArguments(s) == IF JsonLoads(s).ok THEN JsonLoads(s).value ELSE ArgsEmpty

\* message.tool_calls entries of a backend response (id, function.name,
\* function.arguments).
WireCallPool ==
    { [id |-> "call_1", name |-> "get_weather",
       arguments |-> "{\"location\": \"Kansas City, MO\"}"],
      [id |-> "call_2", name |-> "get_datetime", arguments |-> "{}"],
      [id |-> "call_3", name |-> "get_weather", arguments |-> "not json"] }

\* message.tool_calls of one response; << >> stands for None and for [],
\* which `if message.tool_calls:` treats alike.
WireCallLists ==
    { calls \in UNION { [1..n -> WireCallPool] : n \in 0..MaxToolCalls } :
        \A i, j \in DOMAIN calls : calls[i].id = calls[j].id => i = j }

\* choice.finish_reason values a backend may report.
FinishReasons == {None, "stop", "tool_calls", "length"}

\* response.choices[0] of chat.completions.create.
BackendResponses ==
    [finish_reason : FinishReasons,
     content : {None, "It's 72F and sunny."},
     tool_calls : WireCallLists]

\* choice.finish_reason or "stop"
OrStop(finish_reason) ==
    IF finish_reason = None \/ finish_reason = "" THEN "stop" ELSE finish_reason

\* The ToolCall list complete builds from message.tool_calls.
DecodedCalls(wire_calls) ==
    [i \in DOMAIN wire_calls |->
        [id |-> wire_calls[i].id, name |-> wire_calls[i].name,
         arguments |-> DecodeArguments(wire_calls[i].arguments)]]

\* OpenAICompatibleProvider.complete, from the backend's response on.
Complete(resp) ==
    CompletionResult(OrStop(resp.finish_reason), resp.content, DecodedCalls(resp.tool_calls))

\* chat.completions.create returns resp to the complete() that run awaits;
\* complete builds its CompletionResult and run goes on with it.
BackendResponds(t, resp) ==
    /\ pc[t] = "awaiting_completion"
    /\ backend' = [backend EXCEPT ![t] = Append(@, resp)]
    /\ LoopHandles(t, Complete(resp))
    /\ UNCHANGED components

\* One AgenticLoop.run over an OpenAICompatibleProvider.
NextProvider ==
    \/ Run(1, "q1", << >>)
    \/ \E resp \in BackendResponses : BackendResponds(1, resp)
    \/ \E i \in 1..MaxToolCalls : ToolStart(1, i)
    \/ \E i \in 1..MaxToolCalls, out \in ConcurrentToolOutcomes : ToolCompletes(1, i, out)
    \/ DispatchJoin(1)

SpecProvider == InitLoop /\ [][NextProvider]_vars

\* message.tool_calls entries whose arguments string is any of ArgumentStrings.
ArgumentCallPool ==
    WireCallPool \cup
        { [id |-> "call_4", name |-> "get_weather", arguments |-> "[\"Kansas City, MO\"]"] }

ArgumentCallLists ==
    { calls \in UNION { [1..n -> ArgumentCallPool] : n \in 1..MaxToolCalls } :
        \A i, j \in DOMAIN calls : calls[i].id = calls[j].id => i = j }

\* Backend responses that ask for tools.
ArgumentResponses ==
    [finish_reason : {"tool_calls"}, content : {None}, tool_calls : ArgumentCallLists]

\* One run whose backend asks for tools with every kind of arguments string.
NextArguments ==
    \/ Run(1, "q1", << >>)
    \/ \E resp \in ArgumentResponses : BackendResponds(1, resp)
    \/ \E i \in 1..MaxToolCalls : ToolStart(1, i)
    \/ \E i \in 1..MaxToolCalls, out \in ConcurrentToolOutcomes : ToolCompletes(1, i, out)
    \/ DispatchJoin(1)

SpecArguments == InitLoop /\ [][NextArguments]_vars

\* The classes of the openai package that complete imports or that derive
\* from them, with their bases.
OpenAIMro(cls) ==
    CASE cls = "RateLimitError" -> {"RateLimitError", "APIStatusError", "APIError", "Exception"}
      [] cls = "AuthenticationError" ->
             {"AuthenticationError", "APIStatusError", "APIError", "Exception"}
      [] cls = "APIStatusError" -> {"APIStatusError", "APIError", "Exception"}
      [] cls = "APITimeoutError" ->
             {"APITimeoutError", "APIConnectionError", "APIError", "Exception"}
      [] cls = "APIConnectionError" -> {"APIConnectionError", "APIError", "Exception"}
      [] OTHER -> {cls, "APIError", "Exception"}

\* What chat.completions.create may raise: a status error carries the HTTP
\* status of the response, the others have no response.
BackendFailures ==
    { [cls |-> "RateLimitError", msg |-> "rate limit", status_code |-> 429],
      [cls |-> "APIStatusError", msg |-> "Internal Server Error", status_code |-> 500],
      [cls |-> "AuthenticationError", msg |-> "Incorrect API key", status_code |-> 401],
      [cls |-> "APIConnectionError", msg |-> "Connection error."],
      [cls |-> "APITimeoutError", msg |-> "Request timed out."],
      [cls |-> "APIResponseValidationError", msg |-> "Data returned by API invalid"] }

\* f"{exc.status_code}"
StatusText(code) ==
    CASE code = 401 -> "401" [] code = 429 -> "429" [] code = 500 -> "500" [] OTHER -> "?"

\* An except chain that tests APIStatusError before RateLimitError.
RaisedForStatusFirst(f) ==
    IF "APIStatusError" \in OpenAIMro(f.cls)
    THEN [cls |-> "LLMAPIError",
          msg |-> "LLM API returned status " \o StatusText(f.status_code) \o ": " \o f.msg,
          status_code |-> f.status_code]
    ELSE IF "APIConnectionError" \in OpenAIMro(f.cls)
    THEN Exc("LLMConnectionError", "Could not connect to LLM endpoint: " \o f.msg)
    ELSE f

\* The exception complete ends with when create raises f: the first matching
\* except clause, or f itself when none matches.
RaisedFor(f) ==
    IF "RateLimitError" \in OpenAIMro(f.cls)
    THEN Exc("LLMRateLimitError", "Rate limit exceeded: " \o f.msg)
    ELSE IF "APIConnectionError" \in OpenAIMro(f.cls)
    THEN Exc("LLMConnectionError", "Could not connect to LLM endpoint: " \o f.msg)
    ELSE IF "APIStatusError" \in OpenAIMro(f.cls)
    THEN [cls |-> "LLMAPIError",
          msg |-> "LLM API returned status " \o StatusText(f.status_code) \o ": " \o f.msg,
          status_code |-> f.status_code]
    ELSE f

\* chat.completions.create raises f inside the complete() that run awaits;
\* run has no try around complete, so what complete raises ends the run.
BackendRaises(t, f) ==
    /\ pc[t] = "awaiting_completion"
    /\ backend' = [backend EXCEPT ![t] = Append(@, f)]
    /\ Finish(t, caller[t], [kind |-> "raise", exc |-> RaisedFor(f)],
              conv_id[t], user_text[t], history[t])
    /\ messages' = [messages EXCEPT ![t] = << >>]
    /\ UNCHANGED <<components, config, uuids, turns, turnvars, iteration, observed>>

\* Backend responses of the runs whose backend may fail.
FailingBackendResponses ==
    { r \in BackendResponses :
        /\ r.finish_reason \in {"stop", "tool_calls"}
        /\ r.finish_reason = "tool_calls" <=> r.tool_calls # << >>
        /\ r.content = None <=> r.tool_calls # << >> }

\* One run over a backend that answers or fails.
NextBackendErrors ==
    \/ Run(1, "q1", << >>)
    \/ \E resp \in FailingBackendResponses : BackendResponds(1, resp)
    \/ \E f \in BackendFailures : BackendRaises(1, f)
    \/ \E i \in 1..MaxToolCalls : ToolStart(1, i)
    \/ \E i \in 1..MaxToolCalls, out \in ConcurrentToolOutcomes : ToolCompletes(1, i, out)
    \/ DispatchJoin(1)

SpecBackendErrors == InitLoop /\ [][NextBackendErrors]_vars


\* ------------------------------------------------------------- DELETE endpoints
\* The answer to a DELETE request that ended without an exception
\* (status_code=204 of the route).
Deleted(id) == [status |-> 204, id |-> id, seq |-> 1 - delete_response.seq]

\* DELETE /conversation/{conversation_id}: clear_session calls clear_history.
ClearSession(cid) ==
    /\ _histories' = HistoriesAfterClear(_histories, cid)
    /\ delete_response' = Deleted(cid)
    /\ UNCHANGED <<dispatcher, cache, caching, limiter, backend, config, uuids, log, turns, pc,
                   turnvars, locals, observed, outcome, response>>

\* DELETE /conversation: clear_all_sessions calls clear_all_history.
ClearAllSessions ==
    /\ _histories' = << >>
    /\ delete_response' = Deleted("*")
    /\ UNCHANGED <<dispatcher, cache, caching, limiter, backend, config, uuids, log, turns, pc,
                   turnvars, locals, observed, outcome, response>>

\* An entity behind the server whose callers send their own ids.
InitSessions ==
    /\ max_iterations = 1
    /\ system_prompt = DefaultSystemPrompt
    /\ max_history_turns \in 0..MaxHistoryTurns
    /\ auto_create_conversation_id = FALSE
    /\ _histories = << >>
    /\ uuids = 0
    /\ InitTasks
    /\ ComponentsIdle

\* Turns and DELETE requests on the sessions a and b.
NextSessions ==
    \/ \E text \in Texts, given \in ConcurrentIds : AsyncProcess(1, text, given)
    \/ \E r \in ConcurrentResults : ProviderReturns(1, r)
    \/ \E exc \in ConcurrentErrors : ProviderRaises(1, exc)
    \/ \E i \in 1..MaxToolCalls : ToolStart(1, i)
    \/ \E i \in 1..MaxToolCalls, out \in ConcurrentToolOutcomes : ToolCompletes(1, i, out)
    \/ DispatchJoin(1)
    \/ \E cid \in ConcurrentIds : ClearSession(cid)
    \/ ClearAllSessions

SpecSessions == InitSessions /\ [][NextSessions]_vars

\* ------------------------------------------------------------- specifications
\* Ids a caller may send: its own, or one the entity generated earlier.
KnownIds == CallerIds \cup {UuidPool[n] : n \in 1..uuids} \cup {None}

\* The entity behind the HTTP server, one turn at a time; sessions may be
\* cleared while a turn awaits.
Next ==
    \/ \E text \in Texts, given \in KnownIds : AsyncProcess(1, text, given)
    \/ \E r \in EntityResults : ProviderReturns(1, r)
    \/ \E exc \in ProviderErrors : ProviderRaises(1, exc)
    \/ \E i \in 1..MaxToolCalls : ToolStart(1, i)
    \/ \E i \in 1..MaxToolCalls, out \in EntityToolOutcomes : ToolCompletes(1, i, out)
    \/ DispatchJoin(1)
    \/ \E cid \in KnownIds \ {None} : ClearHistory(cid)
    \/ ClearAllHistory

Spec == Init /\ [][Next]_vars

\* The same entity with turns that overlap.
NextConcurrent ==
    \/ \E t \in Tasks, text \in Texts, given \in ConcurrentIds : AsyncProcess(t, text, given)
    \/ \E t \in Tasks, r \in ConcurrentResults : ProviderReturns(t, r)
    \/ \E t \in Tasks, exc \in ConcurrentErrors : ProviderRaises(t, exc)
    \/ \E t \in Tasks, i \in 1..MaxToolCalls : ToolStart(t, i)
    \/ \E t \in Tasks, i \in 1..MaxToolCalls, out \in ConcurrentToolOutcomes :
          ToolCompletes(t, i, out)
    \/ \E t \in Tasks : DispatchJoin(t)
    \/ \E cid \in ConcurrentIds : ClearHistory(cid)
    \/ ClearAllHistory

SpecConcurrent == InitConcurrent /\ [][NextConcurrent]_vars

\* Final answers that tell the turns of one session apart, and a tool round.
SameIdResults ==
    ConcurrentResults \cup { CompletionResult("stop", "r2", <<>>) }

\* Concurrent turns that all name the session "a".
NextSameId ==
    \/ \E t \in Tasks, text \in Texts : AsyncProcess(t, text, "a")
    \/ \E t \in Tasks, r \in SameIdResults : ProviderReturns(t, r)
    \/ \E t \in Tasks, exc \in ConcurrentErrors : ProviderRaises(t, exc)
    \/ \E t \in Tasks, i \in 1..MaxToolCalls : ToolStart(t, i)
    \/ \E t \in Tasks, i \in 1..MaxToolCalls, out \in ConcurrentToolOutcomes :
          ToolCompletes(t, i, out)
    \/ \E t \in Tasks : DispatchJoin(t)

SpecSameId == InitConcurrent /\ [][NextSameId]_vars

\* One AgenticLoop.run, driven directly, with every kind of provider result.
NextLoop ==
    \/ \E text \in Texts, h \in DirectHistories : Run(1, text, h)
    \/ \E r \in LoopResults : ProviderReturns(1, r)
    \/ \E exc \in ProviderErrors : ProviderRaises(1, exc)
    \/ \E i \in 1..MaxToolCalls : ToolStart(1, i)
    \/ \E i \in 1..MaxToolCalls, out \in ToolOutcomes : ToolCompletes(1, i, out)
    \/ DispatchJoin(1)

SpecLoop == InitLoop /\ [][NextLoop]_vars

\* The run of task 1 when every await it makes comes back: the provider call
\* returns or raises, each tool task is started by the event loop and its
\* dispatch ends, and the gather is resumed once all of them have.
LoopFairness ==
    /\ WF_vars(\E r \in LoopResults : ProviderReturns(1, r))
    /\ WF_vars(\E i \in 1..MaxToolCalls : ToolStart(1, i))
    /\ WF_vars(\E i \in 1..MaxToolCalls, out \in ToolOutcomes : ToolCompletes(1, i, out))
    /\ WF_vars(DispatchJoin(1))

\* One run, of which only the provider's and the tools' answers vary.
NextLoopOnce ==
    \/ Run(1, "q1", << >>)
    \/ \E r \in LoopResults : ProviderReturns(1, r)
    \/ \E exc \in ProviderErrors : ProviderRaises(1, exc)
    \/ \E i \in 1..MaxToolCalls : ToolStart(1, i)
    \/ \E i \in 1..MaxToolCalls, out \in ToolOutcomes : ToolCompletes(1, i, out)
    \/ DispatchJoin(1)

SpecLoopTerminating == InitLoop /\ [][NextLoopOnce]_vars /\ LoopFairness

\* ------------------------------------------------------------- AgenticLoop.run
Last(seq) == seq[Len(seq)]

\* The (name, arguments) pairs the results of a run asked for, in order.
RECURSIVE Requested(_)
Requested(results) ==
    IF results = << >>
    THEN << >>
    ELSE [i \in DOMAIN Head(results).tool_calls |->
             <<Head(results).tool_calls[i].name, Head(results).tool_calls[i].arguments>>]
         \o Requested(Tail(results))

\* Every result the run has received asks for at least one tool call.
AlwaysToolCalls(t) ==
    \A n \in DOMAIN returned[t] :
        /\ returned[t][n].finish_reason = "tool_calls"
        /\ Len(returned[t][n].tool_calls) >= 1

RaisedIterationLimit(t) ==
    /\ outcome[t].kind = "raise"
    /\ outcome[t].exc = [cls |-> "RuntimeError", msg |-> IterationLimitMsg]

\* C1: while every provider.complete call returns 'tool_calls' with at least one
\* tool call, a run with max_iterations >= 1 never makes more than max_iterations
\* provider calls, and once all of them have returned it has ended by raising the
\* iteration-limit RuntimeError after exactly max_iterations calls, whatever the
\* dispatcher returned or raised.
C1_IterationCap ==
    \A t \in Tasks :
        (pc[t] # "idle" /\ max_iterations >= 1 /\ AlwaysToolCalls(t)) =>
            /\ provider_calls[t] <= max_iterations
            /\ (pc[t] = "done" /\ Len(returned[t]) = provider_calls[t]) =>
                   /\ RaisedIterationLimit(t)
                   /\ provider_calls[t] = max_iterations
            /\ RaisedIterationLimit(t) => Len(returned[t]) = max_iterations

C1_Witness ==
    /\ pc[1] = "done"
    /\ max_iterations = 2
    /\ AlwaysToolCalls(1)
    /\ RaisedIterationLimit(1)
    /\ provider_calls[1] = 2
    /\ Len(dispatched[1]) = 3

\* k results with finish_reason 'tool_calls', then one 'stop'.
ToolCallsThenStop(results) ==
    /\ Len(results) >= 1
    /\ Last(results).finish_reason = "stop"
    /\ \A n \in 1..(Len(results) - 1) : results[n].finish_reason = "tool_calls"

\* The same, every 'tool_calls' result carrying at least one call.
CallsThenStop(results) ==
    /\ ToolCallsThenStop(results)
    /\ \A n \in 1..(Len(results) - 1) : Len(results[n].tool_calls) >= 1

\* C2 as claimed: a run fed k 'tool_calls' results and then 'stop' consumes all
\* k+1 of them (it does not return while the last result it got is a
\* 'tool_calls' one), dispatches once per requested call, and returns the stop
\* result's content unchanged.
C2_AsClaimed ==
    \A t \in Tasks :
        /\ (pc[t] = "done" /\ outcome[t].kind = "return" /\ Len(returned[t]) >= 1) =>
               Last(returned[t]).finish_reason # "tool_calls"
        /\ (pc[t] = "done" /\ ToolCallsThenStop(returned[t])) =>
               /\ provider_calls[t] = Len(returned[t])
               /\ dispatched[t] = Requested(returned[t])
               /\ outcome[t] = [kind |-> "return", value |-> Last(returned[t]).content]

\* C2 (amended): a run fed k 'tool_calls' results, each with at least one tool
\* call, and then 'stop' makes exactly k+1 provider calls, calls the dispatcher
\* once per requested call with its name and arguments, in order, and returns
\* the stop result's content, or "" when that content is None.
C2_CallsThenStop ==
    \A t \in Tasks :
        (pc[t] = "done" /\ CallsThenStop(returned[t])) =>
            /\ provider_calls[t] = Len(returned[t])
            /\ Len(returned[t]) <= max_iterations
            /\ dispatched[t] = Requested(returned[t])
            /\ outcome[t].kind = "return"
            /\ outcome[t].value = IF Last(returned[t]).content = None
                                  THEN ""
                                  ELSE Last(returned[t]).content

C2_Witness ==
    /\ pc[1] = "done"
    /\ CallsThenStop(returned[1])
    /\ Len(returned[1]) = 2
    /\ Len(returned[1][1].tool_calls) = 2
    /\ dispatched[1] = <<<<"get_datetime", ArgsEmpty>>, <<"get_weather", ArgsLocation>>>>
    /\ Last(returned[1]).content = None
    /\ outcome[1] = [kind |-> "return", value |-> ""]

\* The exceptions a tool dispatch may end in.
ToolExceptions == {o.exc : o \in {x \in ToolOutcomes : x.kind = "raise"}}

C3_State(t) ==
    /\ \A i \in DOMAIN call_state[t] :
           (call_state[t][i] = "done" /\ tool_outcomes[t][i].kind = "raise") =>
               tool_results[t][i] =
                   [role |-> "tool", tool_call_id |-> tool_calls[t][i].id,
                    content |-> "{\"error\": \"" \o tool_outcomes[t][i].exc.msg \o "\"}"]
    /\ outcome[t].kind = "raise" => outcome[t].exc \notin ToolExceptions

C3_Step(t) ==
    /\ pc[t] = "dispatching_tools" =>
           \/ pc'[t] = "dispatching_tools"
           \/ /\ pc'[t] = "awaiting_completion"
              /\ provider_calls'[t] = provider_calls[t] + 1
              /\ messages'[t] = messages[t] \o tool_results[t]
           \/ /\ pc'[t] = "done"
              /\ iteration[t] + 1 >= max_iterations
              /\ outcome'[t].kind = "raise"
              /\ outcome'[t].exc.msg = IterationLimitMsg
    /\ (pc[t] = "awaiting_completion" /\ Len(returned'[t]) = Len(returned[t]) + 1
            /\ Last(returned'[t]).finish_reason = "stop") =>
           /\ pc'[t] = "done"
           /\ outcome'[t].kind = "return"

\* C3: an exception of the dispatcher never ends run: the call's tool-result
\* message carries the JSON object {"error": <exception message>}, the dispatch
\* phase ends as it does after a successful call (next provider call with the
\* results appended, or the iteration limit when no iteration is left), and a
\* 'stop' answer to that provider call is returned.
C3_ToolFailureIsolated ==
    /\ [](\A t \in Tasks : C3_State(t))
    /\ [][\A t \in Tasks : C3_Step(t)]_vars

C3_Witness ==
    /\ pc[1] = "awaiting_completion"
    /\ provider_calls[1] = 2
    /\ Last(messages[1]) = [role |-> "tool", tool_call_id |-> "call_1",
                            content |-> "{\"error\": \"API unavailable\"}"]

C10_Step(t) ==
    /\ \A i \in DOMAIN call_state[t] :
           (pc[t] = "dispatching_tools" /\ pc'[t] = "dispatching_tools") =>
               \/ call_state'[t][i] = call_state[t][i]
               \/ call_state[t][i] = "pending" /\ call_state'[t][i] = "running"
               \/ call_state[t][i] = "running" /\ call_state'[t][i] = "done"
    /\ (pc[t] = "dispatching_tools" /\ pc'[t] # "dispatching_tools") =>
           /\ Len(tool_results[t]) = Len(tool_calls[t])
           /\ \A i \in DOMAIN tool_calls[t] :
                  /\ call_state[t][i] = "done"
                  /\ tool_outcomes[t][i].kind \in {"return", "raise"}
                  /\ tool_results[t][i].tool_call_id = tool_calls[t][i].id
                  /\ tool_outcomes[t][i].kind = "return" =>
                         tool_results[t][i].content = tool_outcomes[t][i].value
           /\ pc'[t] = "awaiting_completion" =>
                  messages'[t] = messages[t] \o tool_results[t]

\* C10: the tool calls of one response run side by side and are joined: while
\* the dispatch lasts no call is cancelled or skipped (each only moves from
\* pending to running to done), whatever happened to its siblings, and the
\* dispatch ends only when every call is done and has its own result message.
C10_FanOutJoinAll == [][\A t \in Tasks : C10_Step(t)]_vars

\* Call 1 has timed out while call 2 is still running; call 2 is not cancelled.
C10_Witness ==
    /\ pc[1] = "dispatching_tools"
    /\ call_state[1] = <<"done", "running">>
    /\ tool_outcomes[1][1] = [kind |-> "raise", exc |-> Exc("TimeoutError", "")]

\* The content _run_one gives the result of a dispatch that ended in `out`.
OwnResult(out) ==
    IF out.kind = "return"
    THEN out.value
    ELSE "{\"error\": \"" \o out.exc.msg \o "\"}"

C11_State(t) ==
    pc[t] = "dispatching_tools" =>
        /\ Len(tool_calls[t]) = Len(Last(returned[t]).tool_calls)
        /\ Last(messages[t]) = Last(returned[t]).raw_message
        /\ \A i \in DOMAIN tool_calls[t] :
               call_state[t][i] = "done" =>
                   /\ tool_results[t][i].role = "tool"
                   /\ tool_results[t][i].tool_call_id = Last(returned[t]).tool_calls[i].id
                   /\ tool_results[t][i].content = OwnResult(tool_outcomes[t][i])

C11_Step(t) ==
    (pc[t] = "dispatching_tools" /\ pc'[t] = "awaiting_completion") =>
        LET calls == Last(returned[t]).tool_calls
            base == Len(messages[t])
        IN  /\ Len(messages'[t]) = base + Len(calls)
            /\ SubSeq(messages'[t], 1, base) = messages[t]
            /\ \A i \in DOMAIN calls :
                   messages'[t][base + i] =
                       [role |-> "tool", tool_call_id |-> calls[i].id,
                        content |-> OwnResult(tool_outcomes[t][i])]

\* C11: for a tool_calls response with calls c1..cn the loop appends, right
\* after the raw assistant message, exactly n tool-result messages, the i-th
\* with role "tool", tool_call_id = ci.id and ci's own result as content, in
\* call order, in whatever order the dispatches completed.
C11_ResultsInCallOrder ==
    /\ [](\A t \in Tasks : C11_State(t))
    /\ [][\A t \in Tasks : C11_Step(t)]_vars

\* get_datetime was requested before get_weather; the weather call failed.
C11_Witness ==
    /\ pc[1] = "awaiting_completion"
    /\ provider_calls[1] = 2
    /\ Len(messages[1]) >= 3
    /\ messages[1][Len(messages[1]) - 2].role = "assistant"
    /\ messages[1][Len(messages[1]) - 1] =
           [role |-> "tool", tool_call_id |-> "call_2", content |-> "{\"temp\": 72}"]
    /\ messages[1][Len(messages[1])] =
           [role |-> "tool", tool_call_id |-> "call_1",
            content |-> "{\"error\": \"API unavailable\"}"]

\* Provider calls of the run of task t that have been issued and not answered.
InFlight(t) == provider_calls[t] - Len(returned[t])

C12_State(t) ==
    /\ InFlight(t) \in {0, 1}
    /\ pc[t] = "dispatching_tools" => InFlight(t) = 0
    /\ pc[t] = "awaiting_completion" =>
           /\ InFlight(t) = 1
           /\ \A i \in DOMAIN call_state[t] : call_state[t][i] \notin {"pending", "running"}

C12_Step(t) ==
    (pc[t] # "idle" /\ pc[t] # "done" /\ provider_calls'[t] = provider_calls[t] + 1) =>
        /\ pc[t] = "dispatching_tools"
        /\ InFlight(t) = 0
        /\ \A i \in DOMAIN tool_calls[t] : call_state[t][i] = "done"
        /\ messages'[t] = messages[t] \o tool_results[t]

\* C12: within one run iterations never overlap: at most one provider call is
\* in flight, none while tools are being dispatched, and the next provider call
\* is issued only when every dispatch of the iteration is done and its result
\* message has been appended.
C12_IterationsSequential ==
    /\ [](\A t \in Tasks : C12_State(t))
    /\ [][\A t \in Tasks : C12_Step(t)]_vars

\* The second provider call of a run, issued after both dispatches were joined.
C12_Witness ==
    /\ pc[1] = "awaiting_completion"
    /\ provider_calls[1] = 2
    /\ Len(returned[1]) = 1
    /\ Len(returned[1][1].tool_calls) = 2
    /\ messages[1][Len(messages[1])].role = "tool"
    /\ messages[1][Len(messages[1]) - 1].role = "tool"

\* ------------------------------------------------------------- async_process
\* The step in which the turn of task t ends (async_process returns).
TurnEnds(t) == pc[t] # "done" /\ pc'[t] = "done" /\ caller[t] = "async_process"

\* The step in which task t starts a turn.
TurnStarts(t) == turns' = turns + 1 /\ FirstFree(t) /\ caller'[t] = "async_process"

TurnMessages(t, answer) == <<UserMsg(user_text[t]), AssistantMsg(answer)>>

\* C4: a turn that ends in any exception of run (iteration limit, the three
\* LLM errors, any other exception) leaves the session-history map exactly as
\* it was: nothing appended, no session created.
C4_FailedTurnInvisible ==
    [][\A t \in Tasks :
          (TurnEnds(t) /\ outcome'[t].kind = "raise") => _histories' = _histories]_vars

C4_Witness ==
    /\ pc[1] = "done"
    /\ outcome[1].kind = "raise"
    /\ outcome[1].exc.cls = "LLMAPIError"
    /\ conv_id[1] = "a"
    /\ "a" \in DOMAIN _histories
    /\ Len(_histories["a"]) = 2

\* No other step touched the session since this turn read it.
WindowIsCurrent(t) ==
    history[t] = TruncateHistory(max_history_turns, StoredHistory(_histories, conv_id[t]))

C6_AsClaimed ==
    [][\A t \in Tasks :
          (TurnStarts(t) /\ conv_id'[t] # None) =>
              LET stored == Get(_histories, conv_id'[t], << >>)
                  keep == 2 * max_history_turns
                  window == history'[t]
              IN  /\ max_history_turns = 0 => window = stored
                  /\ max_history_turns > 0 =>
                         /\ Len(window) = IF Len(stored) > keep THEN keep ELSE Len(stored)
                         /\ \A k \in DOMAIN window :
                                window[k] = stored[Len(stored) - Len(window) + k]
                  /\ Len(window) > 0 => window[1].role = "user"]_vars

InTurn(t) == pc[t] # "idle" /\ caller[t] = "async_process"

C7_State(t) ==
    InTurn(t) =>
        \A k \in DOMAIN history[t] : history[t][k] \in Get(committed, conv_id[t], {})

C7_Step(id) ==
    Get(_histories', id, << >>) # Get(_histories, id, << >>) =>
        \/ pc' = pc /\ turns' = turns
        \/ \E t \in Tasks : TurnEnds(t) /\ conv_id[t] = id

\* C7: under any interleaving, the history passed to the loop for an id holds
\* only messages of earlier successful turns on that id (none if it had none),
\* and the stored history of an id changes only when a turn on that id ends or
\* when it is cleared.
C7_SessionsIsolated ==
    /\ [](\A t \in Tasks : C7_State(t))
    /\ [][\A id \in ConcurrentIds : C7_Step(id)]_vars

\* Two turns in flight: "a" with one earlier turn in its window, "b" with none.
C7_Witness ==
    /\ pc[1] = "awaiting_completion"
    /\ pc[2] = "awaiting_completion"
    /\ conv_id[1] = "a"
    /\ conv_id[2] = "b"
    /\ Len(history[1]) = 2
    /\ history[2] = << >>
    /\ "b" \notin DOMAIN committed

Apologies == {ApologyStuck, ApologyRateLimit, ApologyConnection, ApologyAPI}

C8_State(t) ==
    (pc[t] = "done" /\ caller[t] = "async_process") =>
        /\ response[t].status = 200
        /\ response[t].conversation_id = conv_id[t]
        /\ outcome[t].kind = "raise" =>
               /\ outcome[t].exc = IterationLimitError =>
                      response[t].response_text = ApologyStuck
               /\ outcome[t].exc.cls = "LLMRateLimitError" =>
                      response[t].response_text = ApologyRateLimit
               /\ outcome[t].exc.cls = "LLMConnectionError" =>
                      response[t].response_text = ApologyConnection
               /\ outcome[t].exc.cls = "LLMAPIError" =>
                      response[t].response_text = ApologyAPI
               /\ response[t].response_text # outcome[t].exc.msg

\* C8: a turn that fails with the iteration-limit error, LLMRateLimitError,
\* LLMConnectionError or LLMAPIError is answered 200 with that failure's own
\* apology sentence; the four sentences differ from one another and none is the
\* exception's text.
C8_FailuresAnswered200 ==
    /\ Cardinality(Apologies) = 4
    /\ \A t \in Tasks : C8_State(t)

C8_Witness ==
    /\ pc[1] = "done"
    /\ outcome[1] = [kind |-> "raise",
                     exc |-> Exc("LLMRateLimitError", "Rate limit exceeded: 429")]
    /\ response[1] = [status |-> 200, response_text |-> ApologyRateLimit,
                      conversation_id |-> "a"]

\* C9 as claimed: every exception of a turn other than the loop's
\* iteration-limit error and the three LLM errors is answered with the generic
\* apology.
C9_AsClaimed ==
    \A t \in Tasks :
        (pc[t] = "done" /\ caller[t] = "async_process" /\ outcome[t].kind = "raise"
            /\ outcome[t].exc # IterationLimitError
            /\ outcome[t].exc.cls \notin
                   {"LLMRateLimitError", "LLMConnectionError", "LLMAPIError"}) =>
            response[t].response_text = ApologyGeneric

\* C19: whatever successful turns, failed turns and clears have happened, every
\* stored session history has an even number of messages.
C19_StoredLengthEven ==
    \A id \in DOMAIN _histories : Len(_histories[id]) % 2 = 0

\* A failed turn after two successful ones, the oldest of them out of its window.
C19_Witness ==
    /\ pc[1] = "done"
    /\ outcome[1].kind = "raise"
    /\ dropped[1] = 1
    /\ conv_id[1] = "a"
    /\ "a" \in DOMAIN _histories
    /\ Len(_histories["a"]) = 4

\* C20 as claimed: with max_history_turns = N > 0 the stored history of a
\* session holds at most 2N messages after each of its successful turns.
C20_AsClaimed ==
    [][\A t \in Tasks :
          (TurnEnds(t) /\ outcome'[t].kind = "return" /\ conv_id[t] # None
                /\ max_history_turns > 0) =>
              Len(_histories'[conv_id[t]]) <= 2 * max_history_turns]_vars

\* ------------------------------------------------------------- ToolRegistry.build_dispatcher
\* The exception is an instance of a class of the dispatcher's retryable set.
InRetryableSet(exc) == \E cls \in retry_exceptions : cls \in Mro(exc.cls)

RetryableFailure(out) == out.kind = "raise" /\ InRetryableSet(out.exc)

\* C13: a dispatcher built with max_retries = r >= 0 calls the handler of a
\* known tool one attempt at a time, at most r+1 times; every attempt before the
\* last raised a retryable exception; it ends at the first attempt that returns
\* (that result is returned), at the first attempt that raises an exception
\* outside the retryable set (that exception is raised), or at attempt r+1 (its
\* exception is raised): the outcome of the last attempt is always the outcome
\* of the dispatch.
C13_BoundedRetry ==
    dispatch_name \in DOMAIN registry_snapshot =>
        LET n == Len(handler_calls)
        IN  /\ n <= max_retries + 1
            /\ dispatch_pc = "attempting" =>
                   /\ attempt = n + 1
                   /\ attempt <= max_retries + 1
                   /\ \A k \in 1..n : RetryableFailure(handler_calls[k])
            /\ dispatch_pc = "done" =>
                   /\ n >= 1
                   /\ \A k \in 1..(n - 1) : RetryableFailure(handler_calls[k])
                   /\ dispatch_outcome = handler_calls[n]
                   /\ RetryableFailure(handler_calls[n]) => n = max_retries + 1

\* Two retries after timeouts, then the third timeout is raised.
C13_Witness ==
    /\ dispatch_pc = "done"
    /\ max_retries = 2
    /\ retry_exceptions = {"TimeoutError"}
    /\ Len(handler_calls) = 3
    /\ dispatch_outcome = [kind |-> "raise", exc |-> Exc("TimeoutError", "")]

\* ------------------------------------------------------------- CachingDispatcher
\* The store holds an entry for key that has not expired.
Unexpired(key) == _ttl > 0 /\ key \in DOMAIN _store /\ now <= _store[key][2]

KeyOf(request) == MakeKey(request.name, request.args)

\* The step in which slot c starts a CachingDispatcher call.
CallStarts(c) == calls_made' = calls_made + 1 /\ FirstFreeSlot(c)

\* The step in which the inner dispatcher returns to the call of slot c.
InnerAnswers(c) ==
    /\ caching_pc[c] = "awaiting_inner"
    /\ caching_pc'[c] = "done"
    /\ caching_outcome'[c].kind = "return"

Invocations(counts, key) == IF key \in DOMAIN counts THEN counts[key] ELSE 0

C14_Step(c) ==
    /\ (CallStarts(c) /\ _ttl > 0) =>
           LET key == KeyOf(caching_request'[c])
           IN  IF Unexpired(key)
               THEN /\ caching_pc'[c] = "done"
                    /\ caching_outcome'[c] = [kind |-> "return", value |-> _store[key][1]]
                    /\ inner_calls' = inner_calls
                    /\ _store' = _store
               ELSE /\ caching_pc'[c] = "awaiting_inner"
                    /\ Invocations(inner_calls', key) = Invocations(inner_calls, key) + 1
    /\ (InnerAnswers(c) /\ _ttl > 0) =>
           LET key == KeyOf(caching_request[c])
           IN  /\ _store'[key] = <<caching_outcome'[c].value, now + _ttl>>
               /\ inner_calls' = inner_calls

\* C14: with ttl > 0, the call that finds no unexpired entry for (tool, args)
\* invokes the inner dispatcher once and stores what it returned until ttl
\* later; every call made while that entry is unexpired returns the stored
\* string and neither invokes the inner dispatcher nor changes the entry, so N
\* successive calls return one string for one inner invocation.
C14_HitsServedFromCache == [][\A c \in Tasks : C14_Step(c)]_vars

\* Three calls one after the other for get_datetime: one inner invocation.
C14_Witness ==
    /\ calls_made = 3
    /\ caching_pc = <<"done", "idle">>
    /\ inner_calls = [k \in {MakeKey("get_datetime", ArgsEmpty)} |-> 1]
    /\ caching_outcome[1] = [kind |-> "return", value |-> "{\"temp\": 72}"]
    /\ last_op.op = "get"
    /\ last_op.result = "{\"temp\": 72}"

C15_Step(c) ==
    (CallStarts(c) /\ _ttl > 0) =>
        LET key == KeyOf(caching_request'[c])
            invoked == Invocations(inner_calls', key) - Invocations(inner_calls, key)
        IN  /\ invoked = IF Unexpired(key) THEN 0 ELSE 1
            /\ \A other \in DOMAIN inner_calls' :
                   other # key => Invocations(inner_calls', other) = Invocations(inner_calls, other)

OpDone == last_op' # last_op

C16_Step ==
    /\ (OpDone /\ last_op'.op = "put" /\ _ttl > 0) =>
           _store'[last_op'.key][2] = now + _ttl
    /\ (OpDone /\ last_op'.op = "get" /\ _ttl > 0 /\ last_op'.key \in DOMAIN _store) =>
           LET key == last_op'.key
           IN  IF now <= _store[key][2]
               THEN /\ last_op'.result = _store[key][1]
                    /\ _store' = _store
               ELSE /\ last_op'.result = None
                    /\ key \notin DOMAIN _store'
                    /\ Cardinality(DOMAIN _store') = Cardinality(DOMAIN _store) - 1
    /\ \A key \in DOMAIN _store :
           key \notin DOMAIN _store' =>
               /\ OpDone
               /\ \/ last_op'.op \in {"invalidate", "clear"}
                  \/ /\ last_op'.op = "get"
                     /\ last_op'.key = key
                     /\ now > _store[key][2]
    /\ now' # now => _store' = _store

\* C16: with ttl > 0 an entry put at clock p expires at p + ttl; get returns it
\* while the clock is <= p + ttl; a get after that is a miss that deletes the
\* entry, so len(cache) drops by one; the passing of time alone removes
\* nothing: entries leave the store only in such a get, in invalidate or in clear.
C16_LazyExpiry == [][C16_Step]_vars

\* A get has just found its entry expired and deleted it.
C16_Witness ==
    /\ last_op.op = "get"
    /\ last_op.result = None
    /\ last_op.removed = 1
    /\ last_op.key \notin DOMAIN _store
    /\ _ttl = 1
    /\ now = 2

\* ------------------------------------------------------------- RateLimiter
\* The acquire calls that completed within the window (t - 60 s, t].
InWindow(t) == {i \in DOMAIN acquired : acquired[i] > t - WindowTicks /\ acquired[i] <= t}

\* C17 as claimed: at every instant at most calls_per_minute acquire calls have
\* completed within the 60 seconds before it.
C17_AsClaimed == Cardinality(InWindow(now)) <= calls_per_minute

\* ------------------------------------------------------------- OpenAICompatibleProvider.complete
\* The backend response carries at least one tool call.
CarriesToolCalls(resp) == Len(resp.tool_calls) > 0

\* C18 as stated: for every backend response complete() has turned into a
\* result, the result's finish_reason is "tool_calls" exactly when the
\* response's message carries at least one tool call and "stop" otherwise,
\* whatever finish_reason the backend reported; and the loop has gone on to
\* dispatch the calls of every response that carries some.
C18_AsClaimed ==
    \A t \in Tasks : \A i \in DOMAIN backend[t] :
        /\ returned[t][i].finish_reason =
              (IF CarriesToolCalls(backend[t][i]) THEN "tool_calls" ELSE "stop")
        /\ CarriesToolCalls(backend[t][i]) =>
              \/ iteration[t] >= i
              \/ iteration[t] = i - 1 /\ pc[t] = "dispatching_tools"

\* ------------------------------------------------------------- async_process, conversation_id
\* Ids uuid4() has produced so far.
Generated == {UuidPool[n] : n \in 1..uuids}

\* C21: the resolved conversation id is the caller's id when one is given
\* (also with auto-creation on), else a fresh generated id when auto-creation
\* is on, else null; the answer carries the resolved id whether the turn
\* succeeded or failed; and a turn with a null id runs on an empty history
\* and stores no session.
C21_Step(t) ==
    /\ TurnStarts(t) =>
          /\ conversation_id'[t] # None => conv_id'[t] = conversation_id'[t]
          /\ (conversation_id'[t] = None /\ auto_create_conversation_id) =>
                /\ conv_id'[t] \notin Generated \cup DOMAIN _histories \cup {None}
                /\ conv_id'[t] \in {UuidPool[n] : n \in 1..uuids'}
          /\ (conversation_id'[t] = None /\ ~auto_create_conversation_id) =>
                conv_id'[t] = None
          /\ conv_id'[t] = None => history'[t] = << >>
    /\ TurnEnds(t) =>
          /\ response'[t].status = 200
          /\ response'[t].conversation_id = conv_id[t]
          /\ conv_id[t] = None => _histories' = _histories

C21_ResolvedIdEchoed ==
    /\ [](None \notin DOMAIN _histories)
    /\ [][\A t \in Tasks : C21_Step(t)]_vars

\* A failed turn on a caller's id, with auto-creation on, has echoed the id.
C21_Witness ==
    /\ auto_create_conversation_id
    /\ pc[1] = "done"
    /\ conversation_id[1] = "a"
    /\ outcome[1].kind = "raise"
    /\ response[1].status = 200
    /\ response[1].conversation_id = "a"
    /\ uuids > 0

\* Task 1 starts a turn on the id of the successful turn it has just ended,
\* and the session has not been cleared in between.
NextTurnOnSameId ==
    /\ TurnStarts(1)
    /\ pc[1] = "done"
    /\ caller[1] = "async_process"
    /\ outcome[1].kind = "return"
    /\ conversation_id'[1] # None
    /\ conversation_id'[1] = conv_id[1]
    /\ conv_id[1] \in DOMAIN _histories

\* C22 as claimed: for every non-null id string the caller supplies, the turn
\* that follows a successful turn on the same id is run with a history whose
\* last two messages are that turn's user text and assistant response.
C22_AsClaimed ==
    [][NextTurnOnSameId =>
          /\ Len(history'[1]) >= 2
          /\ SubSeq(history'[1], Len(history'[1]) - 1, Len(history'[1]))
                = TurnMessages(1, outcome[1].value)]_vars

\* ------------------------------------------------------------- clear_history
\* The session of task t's turn was stored when the turn read it and is not
\* stored now: only clear_history / clear_all_history remove a session, so it
\* was cleared while the turn was in flight.
ClearedInFlight(t) ==
    /\ InTurn(t)
    /\ pc[t] # "done"
    /\ Truthy(conv_id[t])
    /\ history[t] # << >>
    /\ conv_id[t] \notin DOMAIN _histories

\* C23 as claimed: once clear_history(id) has returned, nothing stored before
\* the clear comes back into the stored history of id (and so into the history
\* of a later turn), also when a turn on id was in flight during the clear:
\* when that turn ends successfully the session holds its two messages only.
C23_AsClaimed ==
    [][\A t \in Tasks :
          (ClearedInFlight(t) /\ TurnEnds(t) /\ outcome'[t].kind = "return") =>
              _histories'[conv_id[t]] = TurnMessages(t, outcome'[t].value)]_vars

\* ------------------------------------------------------------- run, chat_history
\* C24: from the call of run to its return or raise, the chat_history list of
\* the caller keeps its length and its elements in their order, whatever run
\* appends to its own message list in its tool iterations.
C24_HistoryNotMutated ==
    [][\A t \in Tasks :
          pc[t] \in {"awaiting_completion", "dispatching_tools"} =>
              history'[t] = history[t]]_vars

\* run has returned after a tool iteration on a non-empty chat_history.
C24_Witness ==
    /\ pc[1] = "done"
    /\ caller[1] = "run"
    /\ outcome[1].kind = "return"
    /\ Len(dispatched[1]) > 0
    /\ Len(returned[1]) = 2
    /\ history[1] = <<UserMsg("Previous"), AssistantMsg("Prior response")>>

\* ------------------------------------------------------------- build_dispatcher, snapshot
\* C25: a built dispatcher uses the registry as it was when it was built:
\* build_dispatcher takes the registry's content, a later register or
\* deregister leaves the names the dispatcher knows and the handler it has for
\* each of them as they were, and a dispatch invokes the handler of that
\* snapshot (or answers "unknown tool" for a name the snapshot lacks).
C25_State ==
    /\ dispatch_pc = "attempting" =>
          /\ dispatch_name \in DOMAIN registry_snapshot
          /\ handler = registry_snapshot[dispatch_name]
    /\ (dispatch_pc = "done" /\ dispatch_name \notin DOMAIN registry_snapshot) =>
          /\ handler_calls = << >>
          /\ dispatch_outcome = [kind |-> "return", value |-> UnknownToolJson(dispatch_name)]

C25_Step ==
    /\ (dispatch_pc = "unbuilt" /\ dispatch_pc' # "unbuilt") => registry_snapshot' = _tools
    /\ (dispatch_pc # "unbuilt" /\ _tools' # _tools) => registry_snapshot' = registry_snapshot

C25_SnapshotAtBuildTime == []C25_State /\ [][C25_Step]_vars

\* After the build get_weather was re-registered with another handler and
\* get_datetime was added; the dispatcher is running the handler it was built with.
C25_Witness ==
    /\ dispatch_pc = "attempting"
    /\ dispatch_name = "get_weather"
    /\ handler = "weather_v1"
    /\ DOMAIN registry_snapshot = {"get_weather"}
    /\ DOMAIN _tools = {"get_weather", "get_datetime"}
    /\ _tools["get_weather"] = "weather_v2"

\* ------------------------------------------------------------- _dispatch, unknown tool
\* A JSON object with an "error" field naming the unknown tool.
UnknownToolError(name) == "{\"error\": \"Unknown tool: '" \o name \o "'\"}"

\* Call i of task t names a tool the dispatcher's snapshot lacks.
UnknownCall(t, i) == tool_calls[t][i].name \notin DOMAIN registry_snapshot

\* C26: for every timeout and retry configuration, a dispatch of a name the
\* snapshot lacks returns a JSON string with an "error" field, raises nothing
\* and calls no handler; in the loop that string is the content of the call's
\* tool message, the run does not end on it, and the message is in the list
\* the loop goes on with after the join.
C26_State ==
    /\ (dispatch_pc = "done" /\ dispatch_name \notin DOMAIN registry_snapshot) =>
          /\ handler_calls = << >>
          /\ handler = None
          /\ dispatch_outcome = [kind |-> "return", value |-> UnknownToolError(dispatch_name)]
    /\ \A t \in Tasks : \A i \in DOMAIN tool_calls[t] :
          (UnknownCall(t, i) /\ call_state[t][i] = "done") =>
              tool_results[t][i] =
                  ToolMsg(tool_calls[t][i].id, UnknownToolError(tool_calls[t][i].name))

C26_Step ==
    \A t \in Tasks : \A i \in DOMAIN tool_calls[t] :
        /\ (UnknownCall(t, i) /\ call_state[t][i] = "running"
               /\ i \in DOMAIN call_state'[t] /\ call_state'[t][i] = "done") =>
              pc'[t] = "dispatching_tools"
        /\ (UnknownCall(t, i) /\ pc[t] = "dispatching_tools"
               /\ pc'[t] = "awaiting_completion") =>
              \E k \in DOMAIN messages'[t] :
                  messages'[t][k] =
                      ToolMsg(tool_calls[t][i].id, UnknownToolError(tool_calls[t][i].name))

C26_UnknownToolAnswered == []C26_State /\ [][C26_Step]_vars

\* With retries configured and no timeout, the loop has gone on to its next
\* provider call with the unknown-tool answer of get_datetime in its messages.
C26_Witness ==
    /\ max_retries > 0
    /\ timeout = None
    /\ pc[1] = "awaiting_completion"
    /\ dispatch_name = "get_datetime"
    /\ handler_calls = << >>
    /\ \E k \in DOMAIN messages[1] :
          messages[1][k] = ToolMsg("call_2", UnknownToolError("get_datetime"))

\* ------------------------------------------------------------- RateLimiter, lock
\* Callers between their read of the timestamp queue and their append: the
\* path without a sleep is one step, so these are the callers that sleep.
InCriticalSection == {c \in Tasks : acquire_pc[c] = "sleeping"}

\* C27: at most one caller at a time is between reading the timestamp queue
\* and appending its own timestamp, its sleep included: the lock is held by
\* exactly that caller, whoever calls meanwhile waits for the lock, and the
\* queue the caller appends to is the queue it read, untouched by others.
C27_State ==
    /\ Cardinality(InCriticalSection) <= 1
    /\ \A c \in Tasks : acquire_pc[c] = "sleeping" <=> _lock = c
    /\ _lock = 0 <=> InCriticalSection = {}

C27_Step ==
    \A c \in Tasks :
        /\ (acquire_pc[c] = "sleeping" /\ acquire_pc'[c] = "sleeping") =>
              /\ _timestamps' = _timestamps
              /\ acquired' = acquired
        /\ (acquire_pc[c] = "sleeping" /\ acquire_pc'[c] # "sleeping") =>
              /\ acquire_pc'[c] = "done"
              /\ Len(_timestamps') >= 1
              /\ _timestamps'[Len(_timestamps')] = now

C27_AcquireMutuallyExclusive == []C27_State /\ [][C27_Step]_vars

\* One caller sleeps holding the lock while the other waits for the lock.
C27_Witness ==
    /\ acquire_pc[1] = "sleeping"
    /\ acquire_pc[2] = "waiting_lock"
    /\ _lock = 1

\* ------------------------------------------------------------- _make_key
\* Two argument dicts with the same key/value pairs.
SameItems(a, b) == {a[i] : i \in DOMAIN a} = {b[i] : i \in DOMAIN b}

\* C28: for every tool name and every two argument dicts with the same pairs
\* in different orders, right after a put with one of them a get with the
\* other returns the stored result, and the two address one entry: the keys
\* are equal and the store holds exactly one entry for them.
C28_Step ==
    \A p \in CacheRequests, g \in CacheRequests, result \in InnerResults :
        (/\ p.name = g.name
         /\ SameItems(p.args, g.args)
         /\ _ttl > 0
         /\ CachePut(p.name, p.args, result)) =>
            /\ GetResult(_store', _ttl, now', MakeKey(g.name, g.args)) = result
            /\ Cardinality({k \in DOMAIN _store' :
                               k \in {MakeKey(p.name, p.args), MakeKey(g.name, g.args)}}) = 1

C28_KeyIgnoresArgumentOrder == [][C28_Step]_vars

\* A get with (units, location) has just returned what a put with
\* (location, units) stored; the store holds that one entry.
C28_Witness ==
    /\ last_op.op = "get"
    /\ last_op.args = ArgsUnitsLocation
    /\ last_op.result = "{\"temp\": 75}"
    /\ DOMAIN _store = {MakeKey("get_weather", ArgsLocationUnits)}
    /\ last_op.key = "get_weather:{\"location\": \"Kansas City, MO\", \"units\": \"metric\"}"

\* ------------------------------------------------------------- ToolResultCache, ttl <= 0
\* Inner dispatcher calls made so far, over all keys.
RECURSIVE TotalInvocations(_)
TotalInvocations(counts) ==
    IF DOMAIN counts = {}
    THEN 0
    ELSE LET k == CHOOSE key \in DOMAIN counts : TRUE
         IN  counts[k] + TotalInvocations(Pop(counts, k))

\* C29: with ttl <= 0 the store is empty after every sequence of put, get,
\* invalidate and clear, every get is a miss, and every call of a
\* CachingDispatcher over the cache invokes the inner dispatcher.
C29_State ==
    _ttl <= 0 =>
        /\ _store = << >>
        /\ last_op.op = "get" => last_op.result = None
        /\ TotalInvocations(inner_calls) = calls_made

C29_Step ==
    \A c \in Tasks :
        (CallStarts(c) /\ _ttl <= 0) =>
            /\ caching_pc'[c] = "awaiting_inner"
            /\ Invocations(inner_calls', KeyOf(caching_request'[c]))
                  = Invocations(inner_calls, KeyOf(caching_request'[c])) + 1

C29_DisabledCache == []C29_State /\ [][C29_Step]_vars

\* With a negative ttl, results were put and the same call was made twice in
\* a row through the dispatcher: the inner dispatcher ran both times.
C29_Witness ==
    /\ _ttl < 0
    /\ calls_made = 2
    /\ caching_pc[1] = "awaiting_inner"
    /\ inner_calls = [k \in {MakeKey("get_datetime", ArgsEmpty)} |-> 2]
    /\ last_op.op = "get"
    /\ last_op.result = None

\* ------------------------------------------------------------- clear_history, DELETE
\* A DELETE request was answered in this step.
DeleteAnswered == delete_response' # delete_response

\* C30: clear_history(id), as DELETE /conversation/{id} calls it, removes the
\* session id and nothing else, whether id is stored or not: the other sessions
\* keep their histories, a second clear of the same id changes nothing, and the
\* request is answered 204 in both cases; clear_all_history leaves no session.
C30_Step ==
    DeleteAnswered =>
        /\ delete_response'.status = 204
        /\ IF delete_response'.id = "*"
           THEN _histories' = << >>
           ELSE LET cid == delete_response'.id
                IN  /\ DOMAIN _histories' = DOMAIN _histories \ {cid}
                    /\ \A k \in DOMAIN _histories' : _histories'[k] = _histories[k]
                    /\ cid \notin DOMAIN _histories => _histories' = _histories

C30_ClearIsLocalAndIdempotent == [][C30_Step]_vars

\* DELETE /conversation/a was answered 204 with no session a stored while
\* session b keeps its history.
C30_Witness ==
    /\ delete_response.status = 204
    /\ delete_response.id = "a"
    /\ DOMAIN _histories = {"b"}
    /\ Len(_histories["b"]) = 2
    /\ "a" \notin DOMAIN committed


\* ---------------------------------------------------------------------------
\* C31: a provider result whose finish_reason is neither 'stop' nor
\* 'tool_calls' with a non-empty call list (a 'tool_calls' result with an empty
\* list included) ends the turn at once: the step that handles it finishes the
\* run with that result's content ('' when the content is None), with no
\* dispatcher call and no further provider call; a 'stop' result whose content
\* is None returns ''.
Unexpected(r) ==
    /\ r.finish_reason # "stop"
    /\ ~(r.finish_reason = "tool_calls" /\ r.tool_calls # << >>)

ContentOrEmpty(r) == IF r.content = None THEN "" ELSE r.content

C31_UnexpectedReasonEndsTurn ==
    [][\A t \in Tasks :
          (Len(returned'[t]) = Len(returned[t]) + 1 /\
             (Unexpected(Last(returned'[t])) \/ Last(returned'[t]).finish_reason = "stop")) =>
              /\ pc'[t] = "done"
              /\ outcome'[t] = [kind |-> "return",
                                value |-> ContentOrEmpty(Last(returned'[t]))]
              /\ dispatched'[t] = dispatched[t]
              /\ provider_calls'[t] = provider_calls[t]
      ]_vars

C31_Witness ==
    /\ pc[1] = "done"
    /\ Len(returned[1]) = 2
    /\ returned[1][2].finish_reason = "tool_calls"
    /\ returned[1][2].tool_calls = << >>
    /\ outcome[1] = [kind |-> "return", value |-> "Fallback text"]
    /\ provider_calls[1] = 2
    /\ Len(dispatched[1]) = Len(returned[1][1].tool_calls)

C31_WitnessNullContent ==
    \E t \in Tasks :
        /\ pc[t] = "done"
        /\ Len(returned[t]) >= 1
        /\ Last(returned[t]).finish_reason = "length"
        /\ Last(returned[t]).content = None
        /\ outcome[t] = [kind |-> "return", value |-> ""]


\* ------------------------------------------------------------- ToolCall.arguments
\* A dict, as its items: every item is a <<key, value>> pair.
IsMapping(v) == \A i \in DOMAIN v : Len(v[i]) = 2

\* C32 as claimed: for every tool call complete returns, ToolCall.arguments
\* is a key->value mapping: the decoded JSON object when the backend's
\* arguments string parses, the empty mapping otherwise.
C32_AsClaimed ==
    \A t \in Tasks : \A n \in DOMAIN backend[t] :
        \A i \in DOMAIN backend[t][n].tool_calls :
            /\ Len(returned[t][n].tool_calls) = Len(backend[t][n].tool_calls)
            /\ IsMapping(returned[t][n].tool_calls[i].arguments)

\* What does hold: the arguments are whatever value the string decodes to, a
\* mapping for a JSON object and for a string that does not parse.
C32_DecodedValue ==
    \A t \in Tasks : \A n \in DOMAIN backend[t] :
        \A i \in DOMAIN backend[t][n].tool_calls :
            LET s == backend[t][n].tool_calls[i].arguments
                args == returned[t][n].tool_calls[i].arguments
            IN /\ s = "{\"location\": \"Kansas City, MO\"}" => args = ArgsLocation
               /\ s \in {"{}", "not json"} => args = ArgsEmpty
               /\ s = "[\"Kansas City, MO\"]" => args = ArgsList

\* The backend sent a JSON array as arguments and the dispatcher got the list.
C32_ListDispatched ==
    /\ Len(backend[1]) = 1
    /\ backend[1][1].tool_calls[1].arguments = "[\"Kansas City, MO\"]"
    /\ Len(dispatched[1]) >= 1
    /\ dispatched[1][1] = <<"get_weather", ArgsList>>


\* ------------------------------------------------------------- register, deregister
\* The step is a register/deregister call.
RegistryCalled == registry_call' # registry_call

\* C33: register of a name already registered raises ValueError and
\* deregister of a name not registered raises KeyError, each leaving the
\* registry (names, handlers, order) unchanged; a name deregistered can be
\* registered again; get_definitions lists the registered definitions in
\* registration order.
C33_Step ==
    RegistryCalled =>
        LET call == registry_call'
            was == call.name \in DOMAIN _tools
        IN /\ call.op = "register" =>
                 /\ call.raised = (IF was THEN "ValueError" ELSE None)
                 /\ was => (_tools' = _tools /\ GetDefinitions' = GetDefinitions)
                 /\ ~was => /\ DOMAIN _tools' = DOMAIN _tools \cup {call.name}
                            /\ GetDefinitions' = GetDefinitions \o <<call.name>>
           /\ call.op = "deregister" =>
                 /\ call.raised = (IF was THEN None ELSE "KeyError")
                 /\ ~was => (_tools' = _tools /\ GetDefinitions' = GetDefinitions)
                 /\ was => /\ DOMAIN _tools' = DOMAIN _tools \ {call.name}
                           /\ \A n \in DOMAIN _tools' : _tools'[n] = _tools[n]
                           /\ call.name \notin DOMAIN _tools'

C33_State ==
    /\ {GetDefinitions[i] : i \in DOMAIN GetDefinitions} = DOMAIN _tools
    /\ \A i, j \in DOMAIN GetDefinitions : GetDefinitions[i] = GetDefinitions[j] => i = j

C33_RegistryErrors == []C33_State /\ [][C33_Step]_vars

\* get_weather was registered first, deregistered and registered again after
\* get_datetime (now with another handler), and a second register of it has
\* just been refused.
C33_Witness ==
    /\ registry_call.op = "register"
    /\ registry_call.name = "get_weather"
    /\ registry_call.raised = "ValueError"
    /\ GetDefinitions = <<"get_datetime", "get_weather">>
    /\ _tools["get_weather"] = "weather_v2"

C33_WitnessKeyError ==
    /\ registry_call.op = "deregister"
    /\ registry_call.raised = "KeyError"
    /\ GetDefinitions = <<"get_datetime">>


\* ------------------------------------------------------------- complete, backend failures
\* The members of the LLMError taxonomy.
LLMErrors == {"LLMRateLimitError", "LLMConnectionError", "LLMAPIError"}

\* The last thing the backend of task t did was to fail with f.
FailedWith(t, f) ==
    /\ pc[t] = "done"
    /\ Len(backend[t]) >= 1
    /\ backend[t][Len(backend[t])] = f

\* C34: a backend failure with status 429 ends complete with
\* LLMRateLimitError, an unreachable endpoint with LLMConnectionError, any
\* other non-2xx status with an LLMAPIError carrying that status code: always
\* one member of the LLMError taxonomy, never the backend's own exception.
C34_BackendErrorsMapped ==
    \A t \in Tasks : \A f \in BackendFailures :
        FailedWith(t, f) =>
            /\ outcome[t].kind = "raise"
            /\ ("status_code" \in DOMAIN f /\ f.status_code = 429) =>
                   outcome[t].exc.cls = "LLMRateLimitError"
            /\ f.cls \in {"APIConnectionError", "APITimeoutError"} =>
                   outcome[t].exc.cls = "LLMConnectionError"
            /\ ("status_code" \in DOMAIN f /\ f.status_code # 429) =>
                   /\ outcome[t].exc.cls = "LLMAPIError"
                   /\ outcome[t].exc.status_code = f.status_code
            /\ ("status_code" \in DOMAIN f \/ f.cls \in {"APIConnectionError", "APITimeoutError"}) =>
                   /\ outcome[t].exc.cls \in LLMErrors
                   /\ outcome[t].exc.cls # f.cls

\* After a round of tools the backend answered 401 and the run ended with
\* LLMAPIError(status_code=401).
C34_Witness ==
    /\ Len(backend[1]) = 2
    /\ FailedWith(1, [cls |-> "AuthenticationError", msg |-> "Incorrect API key",
                      status_code |-> 401])
    /\ outcome[1].exc.cls = "LLMAPIError"
    /\ outcome[1].exc.status_code = 401

C34_WitnessRateLimit ==
    /\ FailedWith(1, [cls |-> "RateLimitError", msg |-> "rate limit", status_code |-> 429])
    /\ outcome[1].exc = Exc("LLMRateLimitError", "Rate limit exceeded: rate limit")


\* ------------------------------------------------------------- run, termination
\* range(n) has max(0, n) indices.
RangeLen(n) == IF n > 0 THEN n ELSE 0

\* The three ways a run ends.
ReturnedText(t) == outcome[t].kind = "return"

LimitRaised(t) == outcome[t].kind = "raise" /\ outcome[t].exc = IterationLimitError

ProviderExceptionRaised(t) ==
    outcome[t].kind = "raise" /\ outcome[t].exc \in ProviderErrors

\* C35: provided every provider call and every tool dispatch terminates, a
\* run that has started ends, in exactly one of three ways (final text
\* returned, provider exception propagated, iteration-limit error raised), and
\* it never makes more than max_iterations provider calls (none when
\* max_iterations <= 0).
C35_RunTerminates ==
    /\ (turns >= 1) ~> (pc[1] = "done")
    /\ [](provider_calls[1] <= RangeLen(max_iterations))
    /\ [](pc[1] = "done" =>
            /\ ReturnedText(1) \/ LimitRaised(1) \/ ProviderExceptionRaised(1)
            /\ ~(ReturnedText(1) /\ LimitRaised(1))
            /\ ~(ReturnedText(1) /\ ProviderExceptionRaised(1))
            /\ ~(LimitRaised(1) /\ ProviderExceptionRaised(1))
            /\ max_iterations <= 0 => (provider_calls[1] = 0 /\ LimitRaised(1)))

\* A run that used all its iterations on tool calls and ended on the limit.
C35_Witness ==
    /\ pc[1] = "done"
    /\ max_iterations = MaxIterations
    /\ provider_calls[1] = max_iterations
    /\ Len(dispatched[1]) >= max_iterations
    /\ LimitRaised(1)

C35_WitnessNoIterations ==
    /\ pc[1] = "done"
    /\ max_iterations < 0
    /\ provider_calls[1] = 0
    /\ LimitRaised(1)


\* ------------------------------------------------------------- concurrent turns, one session
\* A list of whole turns: user and assistant messages in turn, nothing else.
WholeTurns(h) ==
    /\ Len(h) % 2 = 0
    /\ \A k \in DOMAIN h :
           /\ DOMAIN h[k] = {"role", "content"}
           /\ h[k].role = (IF k % 2 = 1 THEN "user" ELSE "assistant")

\* C36: under any interleaving of concurrent turns on one conversation_id the
\* stored history is at all times an alternating user/assistant list of whole
\* turns, and it changes only by the one replacement a successful turn makes
\* when it ends: the window that turn read, followed by that turn's own user
\* text and that turn's own final answer.
C36_Step ==
    _histories' # _histories =>
        \E t \in Tasks :
            /\ TurnEnds(t)
            /\ outcome'[t].kind = "return"
            /\ WholeTurns(history[t])
            /\ _histories' = Put(_histories, conv_id[t],
                                 history[t] \o <<UserMsg(user_text[t]),
                                                 AssistantMsg(outcome'[t].value)>>)

C36_AtomicWholeTurns ==
    /\ [](\A id \in DOMAIN _histories : WholeTurns(_histories[id]))
    /\ [][C36_Step]_vars

\* Two turns overlapped on "a" (q1 answered r1 after a tool round, q2
\* answered r2); the one that ended last replaced the history with its own
\* whole turn.
C36_Witness ==
    /\ pc[1] = "done" /\ pc[2] = "done"
    /\ conv_id[1] = "a" /\ conv_id[2] = "a"
    /\ history[1] = << >> /\ history[2] = << >>
    /\ outcome[1] = [kind |-> "return", value |-> "r1"]
    /\ outcome[2] = [kind |-> "return", value |-> "r2"]
    /\ user_text[1] = "q1" /\ user_text[2] = "q2"
    /\ _histories["a"] = <<UserMsg("q1"), AssistantMsg("r1")>>


\* ------------------------------------------------------------- run, message list
\* The run of task t is waiting for the provider, which was sent messages[t].
Sent(t) == pc[t] = "awaiting_completion"

\* C37: the list sent to provider call 1 is the system prompt (when one is
\* set), the caller's history and the new user message, in this order; the
\* list sent to call n+1 is the list sent to call n, then the raw assistant
\* message of response n, then its tool-result messages in call order;
\* nothing is removed, reordered or rewritten in between.
C37_Step(t) ==
    /\ (pc[t] = "idle" /\ Sent(t)') =>
           messages'[t] =
               (IF system_prompt \in {None, ""}
                THEN << >>
                ELSE <<[role |-> "system", content |-> system_prompt]>>)
               \o history'[t]
               \o <<[role |-> "user", content |-> user_text'[t]]>>
    /\ (Sent(t) /\ pc'[t] = "dispatching_tools") =>
           /\ Len(returned'[t]) = Len(returned[t]) + 1
           /\ messages'[t] = messages[t] \o <<returned'[t][Len(returned'[t])].raw_message>>
    /\ (pc[t] = "dispatching_tools" /\ pc'[t] = "dispatching_tools") =>
           messages'[t] = messages[t]
    /\ (pc[t] = "dispatching_tools" /\ Sent(t)') =>
           /\ Len(messages'[t]) = Len(messages[t]) + Len(tool_calls[t])
           /\ \A k \in DOMAIN messages[t] : messages'[t][k] = messages[t][k]
           /\ \A i \in DOMAIN tool_calls[t] :
                  /\ messages'[t][Len(messages[t]) + i] = tool_results[t][i]
                  /\ tool_results[t][i].role = "tool"
                  /\ tool_results[t][i].tool_call_id = tool_calls[t][i].id
           /\ provider_calls'[t] = provider_calls[t] + 1

C37_MessagesOnlyGrow == [][\A t \in Tasks : C37_Step(t)]_vars

\* The second provider call of a run with a system prompt and a two-message
\* history, after a response that asked for two tools.
C37_Witness ==
    /\ Sent(1)
    /\ provider_calls[1] = 2
    /\ system_prompt = "Be brief."
    /\ Len(history[1]) = 2
    /\ Len(returned[1][1].tool_calls) = 2
    /\ Len(messages[1]) = 7
    /\ messages[1][1].role = "system"
    /\ messages[1][4].role = "user"
    /\ messages[1][5] = returned[1][1].raw_message
    /\ messages[1][6].role = "tool"
    /\ messages[1][7].role = "tool"


\* ------------------------------------------------------------- run, provider exception
\* The sentences async_process answers a failed turn with.
AllApologies == Apologies \cup {ApologyGeneric}

\* C38: when provider.complete raises in any iteration, run ends at once with
\* that very exception: no further provider call, no tool dispatch, no retry;
\* the exception reaches async_process, whose except clauses catch it (the
\* turn is answered 200 with an apology, nothing escapes to the HTTP handler)
\* and the session store is left alone.
C38_Step(t, exc) ==
    ProviderRaises(t, exc) =>
        /\ pc'[t] = "done"
        /\ outcome'[t] = [kind |-> "raise", exc |-> exc]
        /\ provider_calls'[t] = provider_calls[t]
        /\ dispatched'[t] = dispatched[t]
        /\ returned'[t] = returned[t]
        /\ \A i \in DOMAIN call_state'[t] : call_state'[t][i] # "running"
        /\ caller[t] = "async_process" =>
               /\ response'[t].status = 200
               /\ response'[t].response_text \in AllApologies
               /\ _histories' = _histories

C38_ProviderExceptionPropagates ==
    [][\A t \in Tasks, exc \in ProviderErrors : C38_Step(t, exc)]_vars

\* The provider raised in the second iteration, after a round of tools; the
\* turn was answered with the generic apology.
C38_Witness ==
    /\ pc[1] = "done"
    /\ caller[1] = "async_process"
    /\ outcome[1] = [kind |-> "raise", exc |-> Exc("ConnectionError", "API unreachable")]
    /\ provider_calls[1] = 2
    /\ Len(dispatched[1]) >= 1
    /\ response[1].status = 200
    /\ response[1].response_text = ApologyGeneric


\* ------------------------------------------------------------- CachingDispatcher, inner raises
\* The step in which the inner dispatcher raises into the call of slot c.
InnerFails(c) ==
    /\ caching_pc[c] = "awaiting_inner"
    /\ caching_pc'[c] = "done"
    /\ caching_outcome'[c].kind = "raise"

\* The step writes an entry for key (a new one, or another value or expiry).
Written(key) ==
    /\ key \in DOMAIN _store'
    /\ key \in DOMAIN _store => _store'[key] # _store[key]

\* C39: the CachingDispatcher writes an entry only in the step in which the
\* inner dispatcher returns to a call for that key; when the inner dispatcher
\* raises on a miss the call ends with that exception and the cache is as it
\* was, so a later call for the same (tool, args) that finds no entry invokes
\* the inner dispatcher again.
C39_Step ==
    /\ \A c \in Tasks :
           InnerFails(c) =>
               /\ caching_outcome'[c].exc \in InnerErrors
               /\ _store' = _store
               /\ inner_calls' = inner_calls
    /\ \A key \in DOMAIN _store' :
           Written(key) =>
               \E c \in Tasks : InnerAnswers(c) /\ KeyOf(caching_request[c]) = key
    /\ \A c \in Tasks :
           (CallStarts(c) /\ KeyOf(caching_request'[c]) \notin DOMAIN _store) =>
               /\ caching_pc'[c] = "awaiting_inner"
               /\ Invocations(inner_calls', KeyOf(caching_request'[c])) =
                      Invocations(inner_calls, KeyOf(caching_request'[c])) + 1

C39_FailureNotCached == [][C39_Step]_vars

\* get_datetime was answered and stored; then the call for get_weather
\* failed, and the store holds the get_datetime entry only.
C39_Witness ==
    /\ _ttl > 0
    /\ calls_made = 2
    /\ caching_pc[1] = "done"
    /\ caching_request[1].name = "get_weather"
    /\ caching_outcome[1].kind = "raise"
    /\ DOMAIN _store = {MakeKey("get_datetime", ArgsEmpty)}

\* The inner dispatcher is invoked a second time for a key whose first call
\* failed or whose entry is gone.
C39_WitnessInvokedAgain ==
    /\ _ttl > 0
    /\ now = 0
    /\ caching_pc[1] = "awaiting_inner"
    /\ caching_pc[2] = "idle"
    /\ Invocations(inner_calls, KeyOf(caching_request[1])) = 2


\* ------------------------------------------------------------- invalidate
\* The keys of the entries stored for tool name.
EntriesOf(store, name) ==
    {k \in DOMAIN store : \E r \in PrefixRequests : r.name = name /\ k = KeyOf(r)}

\* invalidate(name) for the tool names in names: the entries of name go, no
\* other entry does, and the number of entries of name is returned.
InvalidateAllExact(names) ==
    \A name \in names :
        InvalidateAll(name) =>
            /\ EntriesOf(_store', name) = {}
            /\ \A other \in names \ {name} :
                   /\ EntriesOf(_store', other) = EntriesOf(_store, other)
                   /\ \A k \in EntriesOf(_store, other) : _store'[k] = _store[k]
            /\ last_op'.removed = Cardinality(EntriesOf(_store, name))

\* invalidate(name, args): the entry of exactly that pair goes if there is
\* one, every other entry stays, and 1 or 0 is returned.
InvalidateOneExact ==
    \A r \in PrefixRequests :
        Invalidate(r.name, r.args) =>
            /\ KeyOf(r) \notin DOMAIN _store'
            /\ \A k \in DOMAIN _store \ {KeyOf(r)} :
                   k \in DOMAIN _store' /\ _store'[k] = _store[k]
            /\ last_op'.removed = (IF KeyOf(r) \in DOMAIN _store THEN 1 ELSE 0)

\* C40 as claimed: invalidate(name) removes every entry of tool name and only
\* those, for all pairs of distinct tool names, and returns their number;
\* invalidate(name, args) removes at most the entry of that pair and returns 1
\* or 0; entries of every other tool stay.
C40_AsClaimed == [][InvalidateAllExact(PrefixToolNames) /\ InvalidateOneExact]_vars

\* invalidate("get_weather") has just removed two entries, one of them the
\* entry of the tool get_weather:daily.
C40_OtherToolInvalidated ==
    /\ last_op.op = "invalidate"
    /\ last_op.key = "get_weather:"
    /\ last_op.removed = 2
    /\ _store = << >>

====
